---- MODULE Spec2Model ----
(***************************************************************************)
(* A model of the tree lister of peteretelej/tree (src/src/rust_tree).     *)
(*                                                                         *)
(* Strings are tuples of one-character strings, so that prefixes, the last *)
(* '/' of a path, a leading '.', byte-wise comparison and glob matching    *)
(* are computed on the characters as the code computes them.  A run of the *)
(* program (list_directory) is one action: it walks the real directory     *)
(* tree `fs`, or parses and walks the listing `listing`, and leaves what   *)
(* it wrote to the sink, the statistics and its io::Result in `res`.       *)
(***************************************************************************)
EXTENDS Integers, Sequences, FiniteSets, TLC

VARIABLES fs, listing, options, runs, res, prev

vars == <<fs, listing, options, runs, res, prev>>

(***************************************************************************)
(* Bounds of the model.                                                    *)
(***************************************************************************)
MaxLevel == 2
MaxFileLimit == 1
MaxLines == 2
MaxRuns == 2

(***************************************************************************)
(* Option<T>: None is the empty tuple, Some(x) the one-element tuple.      *)
(***************************************************************************)
None == <<>>
Some(x) == <<x>>
IsSome(o) == o # <<>>
Unwrap(o) == o[1]

Max(a, b) == IF a >= b THEN a ELSE b

(***************************************************************************)
(* Strings.                                                                *)
(***************************************************************************)
\* The byte of each character the model's names are made of.
CharCode(c) ==
    CASE c = "." -> 46
      [] c = "/" -> 47
      [] c = "1" -> 49
      [] c = "2" -> 50
      [] c = "3" -> 51
      [] c = "_" -> 95
      [] c = "a" -> 97
      [] c = "b" -> 98
      [] c = "d" -> 100
      [] c = "e" -> 101
      [] c = "f" -> 102
      [] c = "g" -> 103
      [] c = "h" -> 104
      [] c = "i" -> 105
      [] c = "l" -> 108
      [] c = "n" -> 110
      [] c = "o" -> 111
      [] c = "r" -> 114
      [] c = "t" -> 116
      [] c = "x" -> 120

\* Ord::cmp of str / OsStr: byte-wise lexicographic; -1, 0 or 1.
RECURSIVE StrCmp(_, _)
StrCmp(s, t) ==
    IF s = <<>> /\ t = <<>> THEN 0
    ELSE IF s = <<>> THEN -1
    ELSE IF t = <<>> THEN 1
    ELSE IF CharCode(Head(s)) < CharCode(Head(t)) THEN -1
    ELSE IF CharCode(Head(s)) > CharCode(Head(t)) THEN 1
    ELSE StrCmp(Tail(s), Tail(t))

\* str::rfind(c): the index of the last c in s, 0 when there is none.
rfind(s, c) ==
    LET hits == {i \in 1..Len(s) : s[i] = c}
    IN  IF hits = {} THEN 0 ELSE CHOOSE i \in hits : \A j \in hits : j <= i

starts_with(s, c) == Len(s) > 0 /\ s[1] = c

ends_with(s, c) == Len(s) > 0 /\ s[Len(s)] = c

\* str::starts_with(&str), str::ends_with(&str), str::contains(&str).
starts_with_str(s, p) == Len(s) >= Len(p) /\ SubSeq(s, 1, Len(p)) = p

ends_with_str(s, p) ==
    Len(s) >= Len(p) /\ SubSeq(s, Len(s) - Len(p) + 1, Len(s)) = p

contains(s, p) ==
    \E i \in 1..(Len(s) - Len(p) + 1) : SubSeq(s, i, i + Len(p) - 1) = p

\* char::is_whitespace, for the blank and the tab.
is_whitespace(c) == c \in {" ", "\t"}

\* str::trim
RECURSIVE trim_start(_), trim_end(_)
trim_start(s) ==
    IF s # <<>> /\ is_whitespace(s[1]) THEN trim_start(Tail(s)) ELSE s

trim_end(s) ==
    IF s # <<>> /\ is_whitespace(s[Len(s)])
    THEN trim_end(SubSeq(s, 1, Len(s) - 1)) ELSE s

trim(s) == trim_end(trim_start(s))

\* str::split_whitespace().collect(): the maximal runs of other characters.
RECURSIVE split_whitespace(_)
split_whitespace(s) ==
    IF s = <<>> THEN <<>>
    ELSE IF is_whitespace(s[1]) THEN split_whitespace(Tail(s))
    ELSE LET stops == {i \in 1..Len(s) : is_whitespace(s[i])}
             n == IF stops = {} THEN Len(s) + 1
                  ELSE CHOOSE i \in stops : \A j \in stops : i <= j
         IN  <<SubSeq(s, 1, n - 1)>> \o split_whitespace(SubSeq(s, n, Len(s)))

\* [&str]::join(" ")
RECURSIVE join_space(_)
join_space(parts) ==
    IF parts = <<>> THEN <<>>
    ELSE IF Len(parts) = 1 THEN parts[1]
    ELSE parts[1] \o <<" ">> \o join_space(Tail(parts))

\* The last path component: path.file_name() / &entry.path[pos + 1..].
file_name(path) == SubSeq(path, rfind(path, "/") + 1, Len(path))

\* The text before the last '/', the empty string when there is none.
parent_of(path) ==
    IF rfind(path, "/") = 0 THEN <<>> ELSE SubSeq(path, 1, rfind(path, "/") - 1)

\* glob::Pattern::matches with the default MatchOptions: '*' matches any
\* sequence (a leading '.' included), '?' any one character.
RECURSIVE GlobMatches(_, _)
GlobMatches(pat, s) ==
    IF pat = <<>> THEN s = <<>>
    ELSE IF Head(pat) = "*"
         THEN \E k \in 0..Len(s) : GlobMatches(Tail(pat), SubSeq(s, k + 1, Len(s)))
    ELSE IF s = <<>> THEN FALSE
    ELSE (Head(pat) = "?" \/ Head(pat) = Head(s)) /\ GlobMatches(Tail(pat), Tail(s))

(***************************************************************************)
(* Stable sorting (slice::sort_by) and ordering of a hash map's values.    *)
(***************************************************************************)
\* A comparator is handed over as the function cmp[a, b] in {-1, 0, 1}.
\* Insert x after every element that does not compare greater than it.
RECURSIVE InsertSorted(_, _, _)
InsertSorted(sorted, x, cmp) ==
    IF sorted = <<>> THEN <<x>>
    ELSE IF cmp[x, Head(sorted)] < 0 THEN <<x>> \o sorted
    ELSE <<Head(sorted)>> \o InsertSorted(Tail(sorted), x, cmp)

RECURSIVE SortBy(_, _)
SortBy(s, cmp) ==
    IF s = <<>> THEN <<>>
    ELSE InsertSorted(SortBy(SubSeq(s, 1, Len(s) - 1), cmp), s[Len(s)], cmp)

Range(s) == {s[i] : i \in 1..Len(s)}

Reverse(s) == [i \in 1..Len(s) |-> s[Len(s) + 1 - i]]

\* The orders in which a directory reader or a hash map may hand out its
\* items: by key ascending, descending, or ascending rotated by one.
Orders == {"asc", "desc", "rot"}

RECURSIVE AscByPath(_)
AscByPath(S) ==
    IF S = {} THEN <<>>
    ELSE LET m == CHOOSE e \in S : \A o \in S : StrCmp(e.path, o.path) <= 0
         IN  <<m>> \o AscByPath(S \ {m})

InOrder(S, ord) ==
    LET asc == AscByPath(S)
    IN  CASE ord = "asc" -> asc
          [] ord = "desc" -> Reverse(asc)
          [] ord = "rot" -> IF asc = <<>> THEN <<>> ELSE Tail(asc) \o <<Head(asc)>>

(***************************************************************************)
(* The real file system.  A node is                                        *)
(*   [path, kind, to_dir, mod_time, stat_ok, readable]                     *)
(* path: relative to the root, '/'-separated; kind: "dir", "file" or       *)
(* "link" (what DirEntry::file_type reports, which does not follow         *)
(* symbolic links); to_dir: a link's target is a directory; mod_time:      *)
(* Some(seconds relative to the Unix epoch), or None when the metadata     *)
(* call made for sorting fails; stat_ok: the later metadata call of        *)
(* format_entry_line succeeds (a failure may be transient, so an entry     *)
(* without a time may still get its line); readable: fs::read_dir          *)
(* succeeds on a directory.                                                *)
(* fs = [nodes: set of nodes, root_readable: BOOLEAN].                     *)
(***************************************************************************)
UNIX_EPOCH == 0

\* The directory a path names once the symbolic links on it are followed:
\* a node of kind "link" has a `target`, the path of the directory above
\* it that it points to, and the nodes of f are kept under their paths
\* without links.
RECURSIVE canonicalize(_, _)
canonicalize(f, path) ==
    LET on_path == {n \in f.nodes :
                       /\ n.kind = "link"
                       /\ Len(n.path) <= Len(path)
                       /\ SubSeq(path, 1, Len(n.path)) = n.path
                       /\ (Len(n.path) = Len(path) \/ path[Len(n.path) + 1] = "/")}
        link == CHOOSE n \in on_path : \A m \in on_path : Len(n.path) <= Len(m.path)
        rest == SubSeq(path, Len(link.path) + 1, Len(path))
    IN  IF on_path = {} THEN path
        ELSE canonicalize(f, IF link.target # <<>> THEN link.target \o rest
                             ELSE IF rest = <<>> THEN <<>> ELSE Tail(rest))

\* fs::read_dir(path): Ok or Err.
read_dir_ok(f, path) ==
    LET dir == canonicalize(f, path)
    IN  IF dir = <<>> THEN f.root_readable
        ELSE \E n \in f.nodes : n.path = dir /\ n.kind = "dir" /\ n.readable

\* The raw entries the reader returns, in the order `ord`; the path of an
\* entry is the path read joined with its name.
read_dir(f, path, ord) ==
    LET dir == canonicalize(f, path)
    IN  IF dir = path
        THEN InOrder({n \in f.nodes : parent_of(n.path) = path}, ord)
        ELSE InOrder({[n EXCEPT !.path = path \o <<"/">> \o file_name(n.path)] :
                         n \in {m \in f.nodes : parent_of(m.path) = dir}}, ord)

\* DirEntry::file_type of a link in the root directory taken for that of
\* the directory it points to.
file_type_follows_root_links(entry) ==
    \/ entry.kind = "dir"
    \/ entry.kind = "link" /\ entry.to_dir /\ parent_of(entry.path) = <<>>

\* Path::is_dir: follows a symbolic link.
path_is_dir(entry) ==
    entry.kind = "dir" \/ (entry.kind = "link" /\ entry.to_dir)

\* DirEntry::file_type()?.is_dir(): does not follow a symbolic link.
file_type_is_dir(entry) == entry.kind = "dir"

\* The filter without the exclude rule.
should_skip_entry_no_exclude(entry, opts) ==
    LET name == file_name(entry.path)
        is_hidden == starts_with(name, ".")
    IN  IF ~opts.all_files /\ is_hidden THEN TRUE
        ELSE IF IsSome(opts.pattern_glob)
                /\ ~path_is_dir(entry)
                /\ ~GlobMatches(Unwrap(opts.pattern_glob), name) THEN TRUE
        ELSE IF opts.dir_only /\ ~path_is_dir(entry) THEN TRUE
        ELSE FALSE

should_skip_entry(entry, opts) ==
    LET name == file_name(entry.path)
        is_hidden == starts_with(name, ".")
    IN  IF ~opts.all_files /\ is_hidden THEN TRUE
        ELSE IF IsSome(opts.exclude_pattern)
                /\ GlobMatches(Unwrap(opts.exclude_pattern), name) THEN TRUE
        ELSE IF IsSome(opts.pattern_glob)
                /\ ~path_is_dir(entry)
                /\ ~GlobMatches(Unwrap(opts.pattern_glob), name) THEN TRUE
        ELSE IF opts.dir_only /\ ~path_is_dir(entry) THEN TRUE
        ELSE FALSE

IntCmp(a, b) == IF a < b THEN -1 ELSE IF a > b THEN 1 ELSE 0

\* An entry without a time is given the time before every other.
time_or_oldest(info) ==
    IF IsSome(info.mod_time) THEN Unwrap(info.mod_time) ELSE UNIX_EPOCH - 1

\* mod_time.as_ref().unwrap_or(&SystemTime::UNIX_EPOCH)
time_or_epoch(info) ==
    IF IsSome(info.mod_time) THEN Unwrap(info.mod_time) ELSE UNIX_EPOCH

\* The comparison by time without the name as the second key.
sort_comparison_time_only(a, b, opts) ==
    IF opts.sort_by_time
    THEN IntCmp(time_or_epoch(a), time_or_epoch(b))
    ELSE StrCmp(file_name(a.path), file_name(b.path))

\* The closure sort_comparison, and the two sorts of the else branch.
sort_comparison(a, b, opts) ==
    IF opts.sort_by_time
    THEN IF IntCmp(time_or_epoch(a), time_or_epoch(b)) # 0
         THEN IntCmp(time_or_epoch(a), time_or_epoch(b))
         ELSE StrCmp(file_name(a.path), file_name(b.path))
    ELSE StrCmp(file_name(a.path), file_name(b.path))

\* The sort that never partitions into directories and files.
sort_entries_no_partition(entries_info, opts) ==
    LET E == Range(entries_info)
        cmp == [a \in E, b \in E |-> sort_comparison(a, b, opts)]
        sorted == SortBy(entries_info, cmp)
    IN  IF opts.reverse THEN Reverse(sorted) ELSE sorted

\* The sort that reverses the concatenation of directories and files.
sort_entries_reverse_whole(entries_info, opts) ==
    LET E == Range(entries_info)
        cmp == [a \in E, b \in E |-> sort_comparison(a, b, opts)]
        sorted == IF opts.dirs_first
                  THEN SortBy(SelectSeq(entries_info, file_type_is_dir), cmp)
                       \o SortBy(SelectSeq(entries_info,
                                           LAMBDA i : ~file_type_is_dir(i)), cmp)
                  ELSE SortBy(entries_info, cmp)
    IN  IF opts.reverse THEN Reverse(sorted) ELSE sorted

\* Step 2 of traverse_directory: the kept entries in emission order.
sort_entries(entries_info, opts) ==
    LET E == Range(entries_info)
        cmp == [a \in E, b \in E |-> sort_comparison(a, b, opts)]
    IN  IF opts.dirs_first
        THEN LET dirs == SortBy(SelectSeq(entries_info, file_type_is_dir), cmp)
                 files == SortBy(SelectSeq(entries_info,
                                           LAMBDA i : ~file_type_is_dir(i)), cmp)
             IN  IF opts.reverse THEN Reverse(dirs) \o Reverse(files)
                 ELSE dirs \o files
        ELSE LET sorted == SortBy(entries_info, cmp)
             IN  IF opts.reverse THEN Reverse(sorted) ELSE sorted

(***************************************************************************)
(* The sink and the statistics.  st = [out, stats, err]: the lines written *)
(* so far, (directories, files), and whether an Err is being propagated.   *)
(* The text of a line is a sequence of strings: the indentation columns,   *)
(* the connector, then the characters of the name.  A box-drawing          *)
(* character or a backquote is written as its code point in brackets.      *)
(***************************************************************************)
VerticalLine == "[2502]   "
LastBranch == "[2514][2500][2500] "
MidBranch == "[251C][2500][2500] "

RootLine == [kind |-> "root"]
BlankLine == [kind |-> "blank"]

\* The summary line with both words in the plural whatever the counts.
SummaryLine_plural(stats) ==
    [kind |-> "summary", dirs |-> stats[1], dir_str |-> "directories",
     files |-> stats[2], file_str |-> "files"]

\* "\n{} {}, {} {}": the counts with "directory"/"directories", "file"/"files".
SummaryLine(stats) ==
    [kind |-> "summary",
     dirs |-> stats[1],
     dir_str |-> IF stats[1] = 1 THEN "directory" ELSE "directories",
     files |-> stats[2],
     file_str |-> IF stats[2] = 1 THEN "file" ELSE "files"]

EntryLine(path, indent_state, is_last, text) ==
    [kind |-> "entry", path |-> path, indent_state |-> indent_state,
     is_last |-> is_last, text |-> text]

\* The indentation with the two columns exchanged.
indentation_exchanged(opts, indent_state) ==
    IF ~opts.no_indent /\ indent_state # <<>>
    THEN [i \in 1..Len(indent_state) |->
             IF ~indent_state[i] THEN "    "
             ELSE IF opts.ascii THEN "|   " ELSE VerticalLine]
    ELSE <<>>

\* The indentation of format_entry_line: one column per ancestor flag.
indentation(opts, indent_state) ==
    IF ~opts.no_indent /\ indent_state # <<>>
    THEN [i \in 1..Len(indent_state) |->
             IF indent_state[i] THEN "    "
             ELSE IF opts.ascii THEN "|   " ELSE VerticalLine]
    ELSE <<>>

\* The connector of format_entry_line.
line_prefix(opts, is_last) ==
    IF opts.no_indent THEN ""
    ELSE IF is_last THEN (IF opts.ascii THEN "+---" ELSE LastBranch)
    ELSE (IF opts.ascii THEN "\\---" ELSE MidBranch)

\* The line format_entry_line builds with the options of the model:
\* indentation, connector, bare name (no permissions, colour, classify
\* suffix, size or date).
format_entry_line(entry, opts, indent_state, is_last) ==
    indentation(opts, indent_state) \o <<line_prefix(opts, is_last)>>
        \o file_name(entry.path)

\* The line display_virtual_entry writes: prefix and bare name.
display_virtual_entry(entry, opts, indent_state, is_last) ==
    LET prefix ==
            IF opts.no_indent THEN <<>>
            ELSE [i \in 1..Len(indent_state) |->
                     IF opts.ascii
                     THEN (IF indent_state[i] THEN "|   " ELSE "    ")
                     ELSE (IF indent_state[i] THEN VerticalLine ELSE "    ")]
                 \o <<IF opts.ascii
                      THEN (IF is_last THEN "[0060]-- " ELSE "|-- ")
                      ELSE (IF is_last THEN LastBranch ELSE MidBranch)>>
    IN  prefix \o file_name(entry.path)

\* The line written ahead of the line written last.
Write_ahead(st, line) ==
    [st EXCEPT !.out = IF Len(@) > 1
                       THEN SubSeq(@, 1, Len(@) - 1) \o <<line, @[Len(@)]>>
                       ELSE Append(@, line)]

Write(st, line) == [st EXCEPT !.out = Append(@, line)]

\* Only entries that are not directories are counted.
count_entry_files_only(st, is_dir) ==
    IF is_dir THEN st ELSE [st EXCEPT !.stats[2] = @ + 1]

\* stats.0 += 1 for a directory, stats.1 += 1 for anything else.
count_entry(st, is_dir) ==
    IF is_dir THEN [st EXCEPT !.stats[1] = @ + 1]
    ELSE [st EXCEPT !.stats[2] = @ + 1]

\* format_entry_line returns Ok: `let metadata = entry.metadata()?`.
format_entry_line_ok(entry) == entry.stat_ok

\* The limit checks with a directory of exactly `limit` entries skipped too.
skip_recursion_at_limit(f, entry, opts, depth) ==
    IF IsSome(opts.level) /\ depth + 1 >= Unwrap(opts.level) THEN TRUE
    ELSE IF IsSome(opts.file_limit) /\ read_dir_ok(f, entry.path)
         THEN Cardinality({n \in f.nodes : parent_of(n.path) = entry.path})
                  >= Unwrap(opts.file_limit)
    ELSE FALSE

\* The limit checks before the recursion into the child directory `entry`.
skip_recursion(f, entry, opts, depth) ==
    IF IsSome(opts.level) /\ depth + 1 >= Unwrap(opts.level) THEN TRUE
    ELSE IF IsSome(opts.file_limit) /\ read_dir_ok(f, entry.path)
         THEN Cardinality({n \in f.nodes : parent_of(n.path) = entry.path})
                  > Unwrap(opts.file_limit)
    ELSE FALSE

RECURSIVE traverse_directory(_, _, _, _, _), traverse_entries(_, _, _, _, _, _)

\* ctx = [fs, options, ord]: what a run does not change.
traverse_directory(ctx, current_path, depth, st, indent_state) ==
    IF ~read_dir_ok(ctx.fs, current_path)
    THEN [st EXCEPT !.err = TRUE]
    ELSE LET raw == read_dir(ctx.fs, current_path, ctx.ord)
             kept == SelectSeq(raw, LAMBDA e : ~should_skip_entry(e, ctx.options))
             entries_info == sort_entries(kept, ctx.options)
         IN  traverse_entries(ctx, entries_info, 0, depth, st, indent_state)

\* Step 4 of traverse_directory: the loop, from the 0-based `index` on.
traverse_entries(ctx, entries_info, index, depth, st, indent_state) ==
    IF index >= Len(entries_info) THEN st
    ELSE LET entry == entries_info[index + 1]
             last_index == Max(Len(entries_info) - 1, 0)
             is_entry_last == (index = last_index)
             written == Write(st, EntryLine(entry.path, indent_state, is_entry_last,
                                            format_entry_line(entry, ctx.options,
                                                              indent_state,
                                                              is_entry_last)))
         IN  IF ~format_entry_line_ok(entry) THEN [st EXCEPT !.err = TRUE]
             ELSE IF file_type_is_dir(entry)
             THEN LET counted == count_entry(written, TRUE)
                      after ==
                          IF skip_recursion(ctx.fs, entry, ctx.options, depth)
                          THEN counted
                          ELSE traverse_directory(ctx, entry.path, depth + 1, counted,
                                                  Append(indent_state, is_entry_last))
                  IN  IF after.err THEN after
                      ELSE traverse_entries(ctx, entries_info, index + 1, depth,
                                            after, indent_state)
             ELSE traverse_entries(ctx, entries_info, index + 1, depth,
                                   count_entry(written, FALSE), indent_state)

\* The blank line and the summary line whatever --noreport is.
write_summary_always(st, opts) ==
    Write(Write(st, BlankLine), SummaryLine(st.stats))

\* The blank line and the summary line, unless --noreport.
write_summary(st, opts) ==
    IF opts.no_report THEN st
    ELSE Write(Write(st, BlankLine), SummaryLine(st.stats))

list_from_filesystem_with_writer(f, opts, ord) ==
    LET start == [out |-> <<RootLine>>, stats |-> <<0, 0>>, err |-> FALSE]
        walked == traverse_directory([fs |-> f, options |-> opts, ord |-> ord],
                                     <<>>, 0, start, <<>>)
    IN  IF walked.err THEN walked ELSE write_summary(walked, opts)


(***************************************************************************)
(* The listing parser.  A FileEntry is [path, is_dir, size]; the            *)
(* HashMap<String, FileEntry> is the set of its values, one per path, and  *)
(* so is the Vec collected from it, whose order the caller picks with      *)
(* InOrder.                                                                *)
(***************************************************************************)
\* Iterator::take(n) of a slice.
take(lines, n) == SubSeq(lines, 1, IF Len(lines) < n THEN Len(lines) ELSE n)

\* filter(..).count()
count(lines, pred(_)) == Len(SelectSeq(lines, pred))

\* The filter closures of detect_format.
rar_pattern(line) ==
    \/ starts_with_str(line, <<"R", "A", "R", " ">>)
    \/ starts_with_str(line, <<"A", "r", "c", "h", "i", "v", "e", ":">>)
    \/ starts_with_str(line, <<"D", "e", "t", "a", "i", "l", "s", ":", " ", "R", "A", "R">>)
    \/ contains(line, <<"A", "t", "t", "r", "i", "b", "u", "t", "e", "s">>)
    \/ starts_with_str(line, <<" ", "-">>) /\ contains(line, <<"-", "-">>)
          /\ Len(line) > 40
    \/ starts_with_str(line, <<" ", "d">>) /\ contains(line, <<"-", "-">>)
          /\ Len(line) > 40

sevenz_pattern(line) ==
    \/ starts_with_str(line, <<"7", "-", "Z", "i", "p">>)
    \/ starts_with_str(line, <<"L", "i", "s", "t", "i", "n", "g", " ", "a", "r", "c", "h", "i",
          "v", "e", ":">>)
    \/ starts_with_str(line, <<"P", "a", "t", "h", " ", "=">>)
    \/ starts_with_str(line, <<"T", "y", "p", "e", " ", "=">>)
    \/ contains(line, <<"D", ".", ".", ".", ".">>)
    \/ contains(line, <<".", ".", ".", ".", "A">>)

zip_pattern(line) ==
    \/ starts_with_str(line, <<"A", "r", "c", "h", "i", "v", "e", ":">>)
    \/ starts_with_str(line, <<"-", "-", "-", "-", "-", "-", "-", "-", "-">>)
    \/ contains(line, <<" ">>) /\ contains(line, <<":">>) /\ Len(line) > 40
          /\ Len(split_whitespace(line)) >= 4

tar_pattern(line) ==
    /\ Len(split_whitespace(line)) >= 6
    /\ \/ starts_with_str(line, <<"d", "r", "w", "x">>)
       \/ starts_with_str(line, <<"-", "r", "w">>)
       \/ starts_with_str(line, <<"l", "r", "w", "x">>)
       \/ starts_with_str(line, <<"-", "r", "w", "x">>)

\* The chain with the TAR test before the ZIP test.
detect_format_tar_first(lines) ==
    IF lines = <<>> THEN None
    ELSE IF count(take(lines, 10), rar_pattern) > 0 THEN Some("Rar")
    ELSE IF count(take(lines, 10), sevenz_pattern) > 0 THEN Some("SevenZip")
    ELSE IF count(take(lines, 5), tar_pattern) > 0 THEN Some("Tar")
    ELSE IF count(take(lines, 10), zip_pattern) > 0 THEN Some("Zip")
    ELSE Some("Simple")

detect_format(lines) ==
    IF lines = <<>> THEN None
    ELSE IF count(take(lines, 10), rar_pattern) > 0 THEN Some("Rar")
    ELSE IF count(take(lines, 10), sevenz_pattern) > 0 THEN Some("SevenZip")
    ELSE IF count(take(lines, 10), zip_pattern) > 0 THEN Some("Zip")
    ELSE IF count(take(lines, 5), tar_pattern) > 0 THEN Some("Tar")
    ELSE Some("Simple")

\* str::trim_end_matches('/')
RECURSIVE trim_end_slashes(_)
trim_end_slashes(s) ==
    IF ends_with(s, "/") THEN trim_end_slashes(SubSeq(s, 1, Len(s) - 1)) ELSE s

\* An insertion that keeps the value already stored under the key.
map_insert_keep(m, e) == IF \E x \in m : x.path = e.path THEN m ELSE m \cup {e}

\* HashMap::insert: replaces the value stored under the key.
map_insert(m, e) == {x \in m : x.path # e.path} \cup {e}

\* HashMap::entry(key).or_insert_with(..): keeps a value already stored.
map_or_insert(m, e) == IF \E x \in m : x.path = e.path THEN m ELSE m \cup {e}

\* The parent alone: the text before the last '/'.
parent_paths_immediate(clean_path) == {parent_of(clean_path)} \ {<<>>}

\* path_parts[..i].join("/") for i in 1..path_parts.len(): the text before
\* each '/' of the path; the empty ones are not inserted.
parent_paths(clean_path) ==
    {SubSeq(clean_path, 1, k - 1) : k \in {i \in 1..Len(clean_path) : clean_path[i] = "/"}}
        \ {<<>>}

RECURSIVE add_parents(_, _)
add_parents(m, ps) ==
    IF ps = {} THEN m
    ELSE LET p == CHOOSE q \in ps : TRUE
         IN  add_parents(map_or_insert(m, [path |-> p, is_dir |-> TRUE, size |-> None]),
                         ps \ {p})

\* The body of the loop the four archive parsers share: the entry is stored
\* under its path, then its missing parent directories are.
insert_entry(m, entry) ==
    IF entry.path = <<>> THEN m
    ELSE add_parents(map_insert(m, entry), parent_paths(entry.path))

is_ascii_digit(c) == c \in {"0", "1", "2", "3", "4", "5", "6", "7", "8", "9"}

DigitValue(c) ==
    CASE c = "0" -> 0 [] c = "1" -> 1 [] c = "2" -> 2 [] c = "3" -> 3
      [] c = "4" -> 4 [] c = "5" -> 5 [] c = "6" -> 6 [] c = "7" -> 7
      [] c = "8" -> 8 [] c = "9" -> 9

RECURSIVE DecimalValue(_)
DecimalValue(digits) ==
    IF digits = <<>> THEN 0
    ELSE 10 * DecimalValue(SubSeq(digits, 1, Len(digits) - 1))
            + DigitValue(digits[Len(digits)])

\* str::parse::<u64>().ok(): decimal digits after an optional '+'.  The
\* numbers of the model are far below u64::MAX, so the overflow error
\* does not arise.
parse_u64(token) ==
    LET digits == IF token # <<>> /\ token[1] = "+" THEN Tail(token) ELSE token
    IN  IF digits # <<>> /\ \A i \in 1..Len(digits) : is_ascii_digit(digits[i])
        THEN Some(DecimalValue(digits))
        ELSE None

FileEntry(path, is_dir, size) == [path |-> path, is_dir |-> is_dir, size |-> size]

parse_tar_verbose_line(line) ==
    LET parts == split_whitespace(line)
        is_dir == starts_with(parts[1], "d")
        path == SubSeq(line, rfind(line, " ") + 1, Len(line))
        clean_path == IF is_dir /\ ends_with(path, "/")
                      THEN trim_end_slashes(path) ELSE path
    IN  IF Len(parts) < 6 THEN None
        ELSE IF rfind(line, " ") = 0 THEN None
        ELSE Some(FileEntry(clean_path, is_dir, parse_u64(parts[3])))

parse_tar_simple_line(line) ==
    LET is_dir == ends_with(line, "/")
        clean_path == IF is_dir THEN trim_end_slashes(line) ELSE line
    IN  IF clean_path = <<>> THEN None
        ELSE Some(FileEntry(clean_path, is_dir, None))

parse_tar_line(untrimmed) ==
    LET line == trim(untrimmed)
    IN  IF line = <<>> THEN None
        ELSE IF starts_with(line, "d") \/ starts_with(line, "-")
                \/ starts_with(line, "l")
        THEN parse_tar_verbose_line(line)
        ELSE parse_tar_simple_line(line)

parse_zip_simple_line(line) ==
    LET parts == split_whitespace(line)
        path == join_space(SubSeq(parts, 4, Len(parts)))
        is_dir == ends_with(path, "/")
        clean_path == IF is_dir THEN trim_end_slashes(path) ELSE path
    IN  IF Len(parts) < 4 THEN None
        ELSE Some(FileEntry(clean_path, is_dir, parse_u64(parts[1])))

parse_zip_verbose_line(line) ==
    LET parts == split_whitespace(line)
        path == parts[Len(parts)]
        is_dir == ends_with(path, "/")
        clean_path == IF is_dir THEN trim_end_slashes(path) ELSE path
    IN  IF Len(parts) < 7 THEN None
        ELSE Some(FileEntry(clean_path, is_dir, parse_u64(parts[1])))

parse_zip_line(untrimmed) ==
    LET line == trim(untrimmed)
        parts == split_whitespace(line)
    IN  IF \/ line = <<>>
           \/ starts_with_str(line, <<"A", "r", "c", "h", "i", "v", "e", ":">>)
           \/ starts_with_str(line, <<"L", "e", "n", "g", "t", "h">>)
           \/ starts_with_str(line, <<"-", "-", "-", "-", "-", "-", "-", "-", "-">>)
           \/ ends_with_str(line, <<"f", "i", "l", "e", "s">>)
           \/ starts_with_str(line, <<"M", "e", "t", "h", "o", "d">>)
           \/ starts_with_str(line, <<"-", "-", "-", "-", "-", "-">>)
        THEN None
        ELSE IF \/ Len(parts) >= 8 /\ parts[2] = <<"S", "t", "o", "r", "e", "d">>
                \/ Len(parts) >= 2 /\ parts[2] = <<"D", "e", "f", "l", "a", "t", "e", "d">>
        THEN parse_zip_verbose_line(line)
        ELSE IF Len(parts) >= 4 /\ IsSome(parse_u64(parts[1]))
        THEN parse_zip_simple_line(line)
        ELSE None

parse_7z_line(untrimmed) ==
    LET line == trim(untrimmed)
        parts == split_whitespace(line)
        is_dir == starts_with(parts[3], "D")
        size == IF ~is_dir /\ Len(parts) > 3 THEN parse_u64(parts[4]) ELSE None
        path == IF Len(parts) >= 6 THEN join_space(SubSeq(parts, 6, Len(parts)))
                ELSE join_space(SubSeq(parts, 5, Len(parts)))
    IN  IF \/ line = <<>>
           \/ starts_with_str(line, <<"7", "-", "Z", "i", "p">>)
           \/ starts_with_str(line, <<"p", "7", "z", "i", "p">>)
           \/ starts_with_str(line, <<"S", "c", "a", "n", "n", "i", "n", "g">>)
           \/ starts_with_str(line, <<"C", "r", "e", "a", "t", "i", "n", "g">>)
           \/ starts_with_str(line, <<"I", "t", "e", "m", "s", " ", "t", "o">>)
           \/ starts_with_str(line, <<"F", "i", "l", "e", "s", " ", "r", "e", "a", "d">>)
           \/ starts_with_str(line, <<"A", "r", "c", "h", "i", "v", "e", " ", "s", "i", "z", "e">>)
           \/ starts_with_str(line, <<"E", "v", "e", "r", "y", "t", "h", "i", "n", "g">>)
           \/ starts_with_str(line, <<"L", "i", "s", "t", "i", "n", "g", " ", "a", "r", "c", "h",
              "i", "v", "e", ":">>)
           \/ starts_with_str(line, <<"-", "-">>)
           \/ starts_with_str(line, <<"P", "a", "t", "h", " ", "=">>)
           \/ starts_with_str(line, <<"T", "y", "p", "e", " ", "=">>)
           \/ starts_with_str(line, <<"P", "h", "y", "s", "i", "c", "a", "l", " ", "S", "i", "z", "e">>)
           \/ starts_with_str(line, <<"H", "e", "a", "d", "e", "r", "s", " ", "S", "i", "z", "e">>)
           \/ starts_with_str(line, <<"M", "e", "t", "h", "o", "d", " ", "=">>)
           \/ starts_with_str(line, <<"S", "o", "l", "i", "d", " ", "=">>)
           \/ starts_with_str(line, <<"B", "l", "o", "c", "k", "s", " ", "=">>)
           \/ starts_with_str(line, <<"D", "a", "t", "e">>)
           \/ starts_with_str(line, <<"-", "-", "-">>)
           \/ contains(line, <<"f", "i", "l", "e", "s", ",">>)
           \/ contains(line, <<"b", "y", "t", "e", "s", " ", "(">>)
           \/ contains(line, <<"f", "i", "l", "e", ",">>)
        THEN None
        ELSE IF Len(parts) < 5 THEN None
        ELSE IF ~contains(parts[1], <<"-">>) \/ ~contains(parts[2], <<":">>) THEN None
        ELSE IF Len(parts) >= 3 /\ ~contains(parts[3], <<".">>) THEN None
        ELSE Some(FileEntry(path, is_dir, size))

parse_rar_line(untrimmed) ==
    LET line == trim(untrimmed)
        parts == split_whitespace(line)
        attr == parts[1]
        is_dir == starts_with(attr, "d")
        size == IF ~is_dir /\ Len(parts) > 1 THEN parse_u64(parts[2]) ELSE None
        path == IF Len(parts) >= 8 /\ ends_with(parts[4], "%")
                THEN join_space(SubSeq(parts, 8, Len(parts)))
                ELSE join_space(SubSeq(parts, 5, Len(parts)))
    IN  IF \/ line = <<>>
           \/ starts_with_str(line, <<"R", "A", "R", " ">>)
           \/ starts_with_str(line, <<"T", "r", "i", "a", "l", " ", "v", "e", "r", "s", "i", "o", "n">>)
           \/ starts_with_str(line, <<"E", "v", "a", "l", "u", "a", "t", "i", "o", "n", " ", "c",
              "o", "p", "y">>)
           \/ starts_with_str(line, <<"A", "r", "c", "h", "i", "v", "e", ":">>)
           \/ starts_with_str(line, <<"D", "e", "t", "a", "i", "l", "s", ":">>)
           \/ starts_with_str(line, <<"A", "t", "t", "r", "i", "b", "u", "t", "e", "s">>)
           \/ starts_with_str(line, <<"-", "-", "-", "-", "-", "-", "-", "-", "-", "-", "-">>)
           \/ starts_with_str(line, <<"C", "r", "e", "a", "t", "i", "n", "g">>)
           \/ starts_with_str(line, <<"A", "d", "d", "i", "n", "g">>)
           \/ starts_with_str(line, <<"D", "o", "n", "e">>)
           \/ \A i \in 1..Len(line) : is_whitespace(line[i]) \/ is_ascii_digit(line[i])
           \/ /\ Len(line) < 30
              /\ \A i \in 1..Len(line) :
                    is_whitespace(line[i]) \/ is_ascii_digit(line[i]) \/ line[i] = "%"
        THEN None
        ELSE IF Len(parts) < 5 THEN None
        ELSE IF ~starts_with(attr, "-") /\ ~starts_with(attr, "d")
                /\ ~starts_with(attr, "l") THEN None
        ELSE Some(FileEntry(path, is_dir, size))

\* The line parser of each format; a simple path is a tar -tf line.
parse_line(format, line) ==
    CASE format = "Tar" -> parse_tar_line(line)
      [] format = "Zip" -> parse_zip_line(line)
      [] format = "SevenZip" -> parse_7z_line(line)
      [] format = "Rar" -> parse_rar_line(line)

parse_listing_step_reset(m, entry) ==
    IF IsSome(entry) THEN insert_entry(m, Unwrap(entry)) ELSE {}

\* if let Some(entry) = parse_xxx_line(&line) { .. }: a line without an
\* entry leaves the map as it is.
parse_listing_step(m, entry) ==
    IF IsSome(entry) THEN insert_entry(m, Unwrap(entry)) ELSE m

\* parse_tar_listing, parse_zip_listing, parse_7z_listing, parse_rar_listing.
RECURSIVE parse_listing_from(_, _, _)
parse_listing_from(m, lines, format) ==
    IF lines = <<>> THEN m
    ELSE parse_listing_from(parse_listing_step(m, parse_line(format, Head(lines))),
                            Tail(lines), format)

\* The body of the loop of parse_simple_paths for one line.
parse_simple_line(m, line) ==
    LET is_dir == ends_with(line, "/")
        clean_path == IF is_dir THEN trim_end_slashes(line) ELSE line
    IN  IF clean_path = <<>> THEN m
        ELSE add_parents(map_insert(m, [path |-> clean_path, is_dir |-> is_dir,
                                        size |-> None]),
                         parent_paths(clean_path))

RECURSIVE parse_simple_paths_from(_, _)
parse_simple_paths_from(m, lines) ==
    IF lines = <<>> THEN m
    ELSE parse_simple_paths_from(parse_simple_line(m, Head(lines)), Tail(lines))

\* The entries of the map; into_values() hands them out in any order, which
\* the caller picks with InOrder.
parse_simple_paths(lines) == parse_simple_paths_from({}, lines)

\* The format chosen, with the fallback of parse_file_listing for None.
selected_format(lines) ==
    IF IsSome(detect_format(lines)) THEN Unwrap(detect_format(lines)) ELSE "Simple"

parse_file_listing(lines) ==
    IF selected_format(lines) = "Simple" THEN parse_simple_paths(lines)
    ELSE parse_listing_from({}, lines, selected_format(lines))

(***************************************************************************)
(* The walk of a virtual tree.                                             *)
(***************************************************************************)
\* The filter of the virtual walk without the hidden rule.
should_skip_virtual_entry_no_hidden(entry, opts) ==
    LET filename == file_name(entry.path)
    IN  IF IsSome(opts.exclude_pattern)
           /\ GlobMatches(Unwrap(opts.exclude_pattern), filename) THEN TRUE
        ELSE IF IsSome(opts.pattern_glob)
                /\ ~GlobMatches(Unwrap(opts.pattern_glob), filename) THEN TRUE
        ELSE IF opts.dir_only /\ ~entry.is_dir THEN TRUE
        ELSE FALSE

should_skip_virtual_entry(entry, opts) ==
    LET filename == file_name(entry.path)
        is_hidden == starts_with(filename, ".")
    IN  IF ~opts.all_files /\ is_hidden THEN TRUE
        ELSE IF IsSome(opts.exclude_pattern)
                /\ GlobMatches(Unwrap(opts.exclude_pattern), filename) THEN TRUE
        ELSE IF IsSome(opts.pattern_glob)
                /\ ~GlobMatches(Unwrap(opts.pattern_glob), filename) THEN TRUE
        ELSE IF opts.dir_only /\ ~entry.is_dir THEN TRUE
        ELSE FALSE

\* The closure handed to child_list.sort_by.
virtual_comparison(a, b, opts) ==
    IF opts.dirs_first /\ a.is_dir /\ ~b.is_dir THEN -1
    ELSE IF opts.dirs_first /\ ~a.is_dir /\ b.is_dir THEN 1
    ELSE StrCmp(a.path, b.path)

\* children.get(parent): the entries grouped under `parent` in the order of
\* virtual_tree.entries, then sorted.  ctx = [entries, options], entries
\* being the Vec the parser's map was collected into.
children_of(ctx, parent) ==
    LET list == SelectSeq(ctx.entries, LAMBDA e : parent_of(e.path) = parent)
        E == Range(list)
        cmp == [a \in E, b \in E |-> virtual_comparison(a, b, ctx.options)]
    IN  SortBy(list, cmp)

RECURSIVE display_virtual_entries(_, _, _, _, _), display_virtual_loop(_, _, _, _, _, _)

display_virtual_entries(ctx, entries, st, indent_state, depth) ==
    IF IsSome(ctx.options.level) /\ depth >= Unwrap(ctx.options.level) THEN st
    ELSE display_virtual_loop(ctx, entries, 0, st, indent_state, depth)

\* The for loop of display_virtual_entries, from the 0-based index i on.
display_virtual_loop(ctx, entries, i, st, indent_state, depth) ==
    IF i >= Len(entries) THEN st
    ELSE LET entry == entries[i + 1]
             is_last == (i = Len(entries) - 1)
         IN  IF should_skip_virtual_entry(entry, ctx.options)
             THEN display_virtual_loop(ctx, entries, i + 1, st, indent_state, depth)
             ELSE LET counted == count_entry(st, entry.is_dir)
                      shown == Write(counted,
                                     EntryLine(entry.path, indent_state, is_last,
                                               display_virtual_entry(entry, ctx.options,
                                                                     indent_state,
                                                                     is_last)))
                      children == children_of(ctx, entry.path)
                      after ==
                          IF entry.is_dir /\ children # <<>>
                          THEN display_virtual_entries(ctx, children, shown,
                                                       Append(indent_state, ~is_last),
                                                       depth + 1)
                          ELSE shown
                  IN  display_virtual_loop(ctx, entries, i + 1, after, indent_state, depth)

display_virtual_tree_with_writer(entries, opts, ord) ==
    LET ctx == [entries |-> InOrder(entries, ord), options |-> opts]
        start == [out |-> <<RootLine>>, stats |-> <<0, 0>>, err |-> FALSE]
        root_children == children_of(ctx, <<>>)
        walked == IF root_children # <<>>
                  THEN display_virtual_entries(ctx, root_children, start, <<>>, 0)
                  ELSE start
    IN  write_summary(walked, opts)

\* read_file_listing has handed over the trimmed, non-empty lines.
list_from_input_with_writer(lines, opts, ord) ==
    display_virtual_tree_with_writer(parse_file_listing(lines), opts, ord)

list_directory(f, lines, opts, ord) ==
    IF opts.from_file THEN list_from_input_with_writer(lines, opts, ord)
    ELSE list_from_filesystem_with_writer(f, opts, ord)


(***************************************************************************)
(* The inputs of the model: option sets, directory trees and listings.     *)
(***************************************************************************)
DefaultOptions ==
    [all_files |-> FALSE, level |-> None, dir_only |-> FALSE,
     pattern_glob |-> None, exclude_pattern |-> None, sort_by_time |-> FALSE,
     reverse |-> FALSE, file_limit |-> None, dirs_first |-> FALSE,
     no_report |-> FALSE, from_file |-> FALSE, no_indent |-> FALSE,
     ascii |-> FALSE]

Levels == {None} \cup {Some(n) : n \in 0..MaxLevel}
FileLimits == {None} \cup {Some(n) : n \in 0..MaxFileLimit}

\* -P '*.x' and -I 'a*'
IncludeGlobs == {None, Some(<<"*", ".", "x">>)}
ExcludeGlobs == {None, Some(<<"a", "*">>)}

\* The option sets that vary the filter and the limits.
FilterOptions ==
    {[DefaultOptions EXCEPT !.all_files = a, !.level = l, !.dir_only = d,
                            !.pattern_glob = p, !.exclude_pattern = x,
                            !.file_limit = fl] :
        a \in BOOLEAN, l \in Levels, d \in BOOLEAN, p \in IncludeGlobs,
        x \in ExcludeGlobs, fl \in FileLimits}

\* The option sets that vary the sort policy.
SortOptions ==
    {[DefaultOptions EXCEPT !.sort_by_time = t, !.reverse = r, !.dirs_first = df] :
        t \in BOOLEAN, r \in BOOLEAN, df \in BOOLEAN}

\* The option sets of the runs over a listing.
VirtualOptions ==
    {[o EXCEPT !.from_file = TRUE] :
        o \in {f \in FilterOptions : f.file_limit = None} \cup SortOptions}

Node(path, kind, mod_time, stat_ok, readable) ==
    [path |-> path, kind |-> kind, to_dir |-> FALSE, mod_time |-> mod_time,
     stat_ok |-> stat_ok, readable |-> readable]

\* The paths a tree of the filter family may hold, with what they are.
FilterPaths ==
    {<<<<"a">>, "dir">>,
     <<<<"a", "/", "a">>, "dir">>,
     <<<<"a", "/", "a", "/", "b", ".", "x">>, "file">>,
     <<<<"a", "/", "b", ".", "x">>, "file">>,
     <<<<".", "h">>, "dir">>,
     <<<<".", "h", "/", "b", ".", "x">>, "file">>,
     <<<<"a", ".", "x">>, "file">>}

\* A set of paths is a tree when every path's parent is a directory in it.
IsTree(S) ==
    \A u \in S : parent_of(u[1]) = <<>>
                 \/ \E v \in S : v[1] = parent_of(u[1]) /\ v[2] = "dir"

\* Every tree over FilterPaths, with at most one unreadable directory below
\* the root.
FilterFs ==
    UNION {
        {[nodes |-> {Node(u[1], u[2], Some(1), TRUE, u[1] \notin bad) : u \in S},
          root_readable |-> TRUE] :
            bad \in {{}} \cup {{u[1]} : u \in {v \in S : v[2] = "dir"}}} :
        S \in {T \in SUBSET FilterPaths : IsTree(T)}}

\* The modification times: failed, before the epoch, the epoch, after it.
ModTimes == {None, Some(-1), Some(0), Some(1)}

\* What the two metadata calls made for an entry give: a time and then
\* success, or no time and then failure again or (transiently) success.
Stats ==
    {[mod_time |-> t, stat_ok |-> TRUE] : t \in ModTimes}
        \cup {[mod_time |-> None, stat_ok |-> FALSE]}

\* Two directories and two files side by side, one file below, every
\* assignment of metadata results to the four siblings.
SortFs ==
    {[nodes |-> {Node(<<"a">>, "dir", sa.mod_time, sa.stat_ok, TRUE),
                 Node(<<"b">>, "dir", sb.mod_time, sb.stat_ok, TRUE),
                 Node(<<"a", ".", "x">>, "file", sax.mod_time, sax.stat_ok, TRUE),
                 Node(<<"b", ".", "x">>, "file", sbx.mod_time, sbx.stat_ok, TRUE),
                 Node(<<"a", "/", "b", ".", "x">>, "file", Some(1), TRUE, TRUE)},
      root_readable |-> TRUE] :
        sa \in Stats, sb \in Stats, sax \in Stats, sbx \in Stats}

EmptyFs == [nodes |-> {}, root_readable |-> TRUE]

\* The lines a listing is made of.
ListingLines ==
    {<<"a", "/">>,
     <<"a">>,
     <<"a", "/", "b", ".", "x">>,
     <<"a", "/", "a", "/", "b", ".", "x">>,
     <<".", "h", "/", "b", ".", "x">>,
     <<"a", ".", "x">>}

Listings == UNION {[1..n -> ListingLines] : n \in 0..MaxLines}

(***************************************************************************)
(* The tree root/{dir1/{dir1_1/, file2.txt}, dir2/{file3.txt}, file1.txt}  *)
(* with the hidden file .gitignore beside it, and everything cut from it.  *)
(***************************************************************************)
dir1 == <<"d", "i", "r", "1">>
dir1_1 == dir1 \o <<"/", "d", "i", "r", "1", "_", "1">>
file2_txt == dir1 \o <<"/", "f", "i", "l", "e", "2", ".", "t", "x", "t">>
dir2 == <<"d", "i", "r", "2">>
file3_txt == dir2 \o <<"/", "f", "i", "l", "e", "3", ".", "t", "x", "t">>
file1_txt == <<"f", "i", "l", "e", "1", ".", "t", "x", "t">>
gitignore == <<".", "g", "i", "t", "i", "g", "n", "o", "r", "e">>

ScenarioA ==
    {<<dir1, "dir">>, <<dir1_1, "dir">>, <<file2_txt, "file">>,
     <<dir2, "dir">>, <<file3_txt, "file">>, <<file1_txt, "file">>}

ScenarioPaths == ScenarioA \cup {<<gitignore, "file">>}

ScenarioTrees == {T \in SUBSET ScenarioPaths : IsTree(T)}

\* The directory tree holding the paths S, every entry readable.
FsOf(S) ==
    [nodes |-> {Node(u[1], u[2], Some(1), TRUE, TRUE) : u \in S},
     root_readable |-> TRUE]

\* The listing of the paths S: one line per entry, a directory's line
\* ending in '/'.
ListingOf(S) ==
    LET asc == AscByPath({[path |-> u[1], kind |-> u[2]] : u \in S})
    IN  [i \in 1..Len(asc) |->
            IF asc[i].kind = "dir" THEN asc[i].path \o <<"/">> ELSE asc[i].path]

\* The option sets that vary what is shown of the tree and the summary.
ScenarioOptions ==
    {[DefaultOptions EXCEPT !.all_files = a, !.level = l, !.no_report = n,
                            !.dirs_first = df, !.from_file = ff] :
        a \in BOOLEAN, l \in Levels, n \in BOOLEAN, df \in BOOLEAN,
        ff \in BOOLEAN}

(***************************************************************************)
(* The listings handed to the parser alone: simple paths of every shape,   *)
(* the rows of `tar -tvf`, and header and row lines of the archive tools   *)
(* after some simple paths.                                                *)
(***************************************************************************)
MaxParseLines == 3
MaxFill == 11

\* a, a/, a/b, a/b/, a//b, /a, ./a/b, a\b, C:\a\b
SimplePathLines ==
    {<<"a">>, <<"a", "/">>, <<"a", "/", "b">>, <<"a", "/", "b", "/">>,
     <<"a", "/", "/", "b">>, <<"/", "a">>,
     <<".", "/", "a", "/", "b">>, <<"a", "\\", "b">>,
     <<"C", ":", "\\", "a", "\\", "b">>}

\* drwxr-xr-x u/g 0 2023-01-01 12:00 a/
TarDirRow ==
    <<"d", "r", "w", "x", "r", "-", "x", "r", "-", "x", " ", "u", "/", "g",
      " ", "0", " ", "2", "0", "2", "3", "-", "0", "1", "-", "0", "1", " ",
      "1", "2", ":", "0", "0", " ", "a", "/">>

\* -rw-r--r-- u/g 9 2023-01-01 12:00 a/b.x
TarRow ==
    <<"-", "r", "w", "-", "r", "-", "-", "r", "-", "-", " ", "u", "/", "g",
      " ", "9", " ", "2", "0", "2", "3", "-", "0", "1", "-", "0", "1", " ",
      "1", "2", ":", "0", "0", " ", "a", "/", "b", ".", "x">>

\* -rw-r--r-- u/g 7 2023-01-01 12:00 a/b.x
TarRowAgain ==
    <<"-", "r", "w", "-", "r", "-", "-", "r", "-", "-", " ", "u", "/", "g",
      " ", "7", " ", "2", "0", "2", "3", "-", "0", "1", "-", "0", "1", " ",
      "1", "2", ":", "0", "0", " ", "a", "/", "b", ".", "x">>

\* -rw-r--r-- u/g 5 2023-01-01 12:00 a
TarRowParent ==
    <<"-", "r", "w", "-", "r", "-", "-", "r", "-", "-", " ", "u", "/", "g",
      " ", "5", " ", "2", "0", "2", "3", "-", "0", "1", "-", "0", "1", " ",
      "1", "2", ":", "0", "0", " ", "a">>

TarRows == {TarDirRow, TarRow, TarRowAgain, TarRowParent}

\* drwx u: a row with too few fields
TarShortRow == <<"d", "r", "w", "x", " ", "u">>

EmptyLine == <<>>

WhitespaceLine == <<" ", " ">>

\* Lines that are no row of any archive format.
MalformedLines == {EmptyLine, WhitespaceLine, TarShortRow}

\* RAR 5.40
RarHeader == <<"R", "A", "R", " ", "5", ".", "4", "0">>

\* Archive:  t.zip
ArchiveHeader ==
    <<"A", "r", "c", "h", "i", "v", "e", ":", " ", " ", "t", ".", "z", "i",
      "p">>

\* 7-Zip 16.02
SevenZipHeader == <<"7", "-", "Z", "i", "p", " ", "1", "6", ".", "0", "2">>

\* ---------  ---------- -----   ----
ZipDashes ==
    <<"-", "-", "-", "-", "-", "-", "-", "-", "-", " ", " ", "-", "-", "-",
      "-", "-", "-", "-", "-", "-", "-", " ", "-", "-", "-", "-", "-", " ",
      " ", " ", "-", "-", "-", "-">>

\* 9  2025-07-26 19:41   a/b.x
ZipRow ==
    <<"9", " ", " ", "2", "0", "2", "5", "-", "0", "7", "-", "2", "6", " ",
      "1", "9", ":", "4", "1", " ", " ", " ", "a", "/", "b", ".", "x">>

FormatLines == {RarHeader, ArchiveHeader, SevenZipHeader, ZipDashes, ZipRow, TarRow}

\* k times the simple path a/b
Fill(k) == [i \in 1..k |-> <<"a", "/", "b">>]

ParseListings ==
    UNION {[1..n -> SimplePathLines] : n \in 0..MaxParseLines}
        \cup UNION {[1..n -> TarRows \cup MalformedLines] : n \in 1..MaxParseLines}
        \cup {Fill(k) \o tail : k \in 0..MaxFill,
                                tail \in UNION {[1..n -> FormatLines] : n \in 0..2}}

(***************************************************************************)
(* The state machine: the program is run on an unchanging input.           *)
(***************************************************************************)
NotRun == [out |-> <<>>, stats |-> <<0, 0>>, err |-> FALSE]

Init ==
    /\ runs = 0
    /\ res = NotRun
    /\ prev = NotRun
    /\ \/ options \in FilterOptions /\ fs \in FilterFs /\ listing = <<>>
       \/ options \in SortOptions /\ fs \in SortFs /\ listing = <<>>
       \/ options \in VirtualOptions /\ fs = EmptyFs /\ listing \in Listings

\* One run of the program on the directory tree; the reader hands out the
\* raw entries in some order.
ListFromFilesystem ==
    /\ ~options.from_file
    /\ runs < MaxRuns
    /\ \E ord \in Orders :
          res' = list_directory(fs, listing, options, ord)
    /\ prev' = res
    /\ runs' = runs + 1
    /\ UNCHANGED <<fs, listing, options>>

\* One run of the program on the listing; the parser's hash map hands out
\* its values in some order.
ListFromInput ==
    /\ options.from_file
    /\ runs < MaxRuns
    /\ \E ord \in Orders :
          res' = list_directory(fs, listing, options, ord)
    /\ prev' = res
    /\ runs' = runs + 1
    /\ UNCHANGED <<fs, listing, options>>

Next == ListFromFilesystem \/ ListFromInput

Spec == Init /\ [][Next]_vars

\* The runs over the scenario trees, as directory trees and as listings.
ScenarioInit ==
    /\ runs = 0
    /\ res = NotRun
    /\ prev = NotRun
    /\ options \in ScenarioOptions
    /\ \E S \in ScenarioTrees :
          IF options.from_file
          THEN fs = EmptyFs /\ listing = ListingOf(S)
          ELSE fs = FsOf(S) /\ listing = <<>>

ScenarioSpec == ScenarioInit /\ [][Next]_vars

\* What parse_file_listing has not yet returned.
NotParsed == [format |-> "", entries |-> {}]

ParseInit ==
    /\ runs = 0
    /\ res = NotParsed
    /\ prev = NotParsed
    /\ options = [DefaultOptions EXCEPT !.from_file = TRUE]
    /\ fs = EmptyFs
    /\ listing \in ParseListings

\* One call of parse_file_listing on the lines of the listing.
ParseFileListing ==
    /\ runs = 0
    /\ res' = [format |-> selected_format(listing),
               entries |-> parse_file_listing(listing)]
    /\ runs' = 1
    /\ UNCHANGED <<fs, listing, options, prev>>

ParseNext == ParseFileListing

ParseSpec == ParseInit /\ [][ParseNext]_vars


(***************************************************************************)
(* The process: the command line is turned into options, the listing is    *)
(* written to standard output, and an error ends the run.  In these runs   *)
(* `options` is the invocation [cli, stdout]: cli holds the texts of -P     *)
(* and -I and the flags; stdout is None for a sink that takes every line   *)
(* or Some([accepts, error]) for one that takes `accepts` lines and then   *)
(* fails each write with `error`.  An io::Error is [kind, chain], chain    *)
(* being the errors that repeated source() calls yield, each [io, kind]    *)
(* (io: it downcasts to io::Error).  `res` is [out, diag, status,           *)
(* traversed]: the lines the sink took, the messages on standard error,    *)
(* the exit status ("exit 0", "exit 1"; "Ok", "Err" for run_cli), and         *)
(* whether the listing code was entered.                                   *)
(***************************************************************************)
is_broken_pipe_error_kind_only(err) == err.kind = "BrokenPipe"

is_broken_pipe_error(err) ==
    \/ err.kind = "BrokenPipe"
    \/ \E i \in 1..Len(err.chain) :
          err.chain[i].io /\ err.chain[i].kind = "BrokenPipe"

\* glob::Pattern::new returns Ok: at most two '*' in a row, a "**" only as
\* a whole path component, and every '[' closed by a ']' after at least
\* one character of the class (two after "[!").
RECURSIVE Pattern_new_ok(_, _)
Pattern_new_ok(chars, i) ==
    IF i > Len(chars) THEN TRUE
    ELSE IF chars[i] = "*"
    THEN LET stars == CHOOSE n \in 1..Len(chars) :
                          /\ \A k \in i..(i + n - 1) : k <= Len(chars) /\ chars[k] = "*"
                          /\ (i + n > Len(chars) \/ chars[i + n] # "*")
             after == i + stars
         IN  IF stars > 2 THEN FALSE
             ELSE IF stars = 2
             THEN IF i = 1 \/ chars[i - 1] = "/"
                  THEN IF after <= Len(chars) /\ chars[after] = "/"
                       THEN Pattern_new_ok(chars, after + 1)
                       ELSE after = Len(chars) + 1
                  ELSE FALSE
             ELSE Pattern_new_ok(chars, after)
    ELSE IF chars[i] = "["
    THEN LET from == IF i + 1 <= Len(chars) /\ chars[i + 1] = "!" THEN i + 3 ELSE i + 2
             closing == {j \in from..Len(chars) : chars[j] = "]"}
         IN  IF closing = {} THEN FALSE
             ELSE Pattern_new_ok(chars, (CHOOSE j \in closing : \A k \in closing : j <= k) + 1)
    ELSE Pattern_new_ok(chars, i + 1)

parse_glob_pattern_lenient(s) == Some(s)

\* parse_glob_pattern: Ok(pattern) or Err(message).
parse_glob_pattern(s) == IF Pattern_new_ok(s, 1) THEN Some(s) ELSE None

\* The pattern of an absent option is absent; of a present one, the result
\* of parse_glob_pattern.
pattern_invalid(text) == IsSome(text) /\ ~IsSome(parse_glob_pattern(Unwrap(text)))

\* cli_to_options: Err when a pattern is rejected, else Ok(TreeOptions).
cli_to_options(cli) ==
    IF pattern_invalid(cli.pattern) \/ pattern_invalid(cli.exclude) THEN None
    ELSE Some([DefaultOptions EXCEPT !.pattern_glob = cli.pattern,
                                     !.exclude_pattern = cli.exclude,
                                     !.all_files = cli.all_files,
                                     !.dir_only = cli.dir_only,
                                     !.from_file = cli.fromfile])

\* list_directory behind a sink, `run` being what list_directory does on
\* a sink that takes every line: the lines the sink took, the message of
\* traverse_directory on standard error, and the io::Result returned.  A
\* failed write returns the sink's error at once; a failed read returns
\* `read_error`.
list_directory_to(run, stdout, read_error) ==
    LET cut == IsSome(stdout) /\ Unwrap(stdout).accepts < Len(run.out)
    IN  IF cut
        THEN [out |-> take(run.out, Unwrap(stdout).accepts), diag |-> <<>>,
              result |-> Some(Unwrap(stdout).error)]
        ELSE IF run.err
        THEN [out |-> run.out, diag |-> <<"Error reading directory">>,
              result |-> Some(read_error)]
        ELSE [out |-> run.out, diag |-> <<>>, result |-> None]

\* What list_directory(path, options) does with the options of the command
\* line; it is not called when they were rejected.
list_directory_with(cli, f, lines, ord) ==
    IF IsSome(cli_to_options(cli))
    THEN list_directory(f, lines, Unwrap(cli_to_options(cli)), ord)
    ELSE NotRun

\* run_cli: the options are built, then the listing is written (`run`);
\* the io::Result is handed back to the caller.
run_cli(inv, run, read_error) ==
    LET built == cli_to_options(inv.cli)
        listed == list_directory_to(run, inv.stdout, read_error)
    IN  IF ~IsSome(built)
        THEN [out |-> <<>>, diag |-> <<>>, status |-> "Err", traversed |-> FALSE,
              error |-> Some([kind |-> "InvalidInput", chain |-> <<>>])]
        ELSE [out |-> listed.out, diag |-> listed.diag,
              status |-> IF IsSome(listed.result) THEN "Err" ELSE "Ok",
              traversed |-> TRUE, error |-> listed.result]

\* main and try_main: a rejected pattern prints its message and exits with
\* status 1; else the listing is written (`run`), and an error of it exits
\* silently with 0 when it is a broken pipe and prints `Error: ..` and
\* exits with 1 otherwise.
main(inv, run, read_error) ==
    LET cli == inv.cli
        listed == list_directory_to(run, inv.stdout, read_error)
    IN  IF pattern_invalid(cli.pattern)
        THEN [out |-> <<>>, diag |-> <<"Error: Invalid pattern">>, status |-> "exit 1",
              traversed |-> FALSE, error |-> None]
        ELSE IF pattern_invalid(cli.exclude)
        THEN [out |-> <<>>, diag |-> <<"Error: Invalid exclude pattern">>, status |-> "exit 1",
              traversed |-> FALSE, error |-> None]
        ELSE IF ~IsSome(listed.result)
        THEN [out |-> listed.out, diag |-> listed.diag, status |-> "exit 0",
              traversed |-> TRUE, error |-> None]
        ELSE IF is_broken_pipe_error(Unwrap(listed.result))
        THEN [out |-> listed.out, diag |-> listed.diag, status |-> "exit 0",
              traversed |-> TRUE, error |-> listed.result]
        ELSE [out |-> listed.out, diag |-> Append(listed.diag, "Error"), status |-> "exit 1",
              traversed |-> TRUE, error |-> listed.result]


MaxChain == 2
MaxAccepts == 2

\* The errors a write may fail with.
IoErrors ==
    LET links == {[io |-> TRUE, kind |-> "BrokenPipe"], [io |-> TRUE, kind |-> "Other"],
                  [io |-> FALSE, kind |-> ""]}
    IN  {[kind |-> k, chain |-> c] :
            k \in {"BrokenPipe", "WriteZero", "Interrupted", "Other"},
            c \in UNION {[1..n -> links] : n \in 0..MaxChain}}

\* The errors fs::read_dir may fail with.
ReadErrors ==
    {[kind |-> k, chain |-> <<>>] : k \in {"NotFound", "PermissionDenied"}}

\* The invocations: every pair of texts given to -P and -I (two patterns
\* and texts Pattern::new rejects: an unclosed class, more than two stars,
\* a "**" that is not a whole component) on a sink that takes every line,
\* and the plain command on a sink that fails.
Invocations ==
    LET PatternTexts ==
            {None, Some(<<"*", ".", "x">>), Some(<<"[">>), Some(<<"a", "*", "*">>)}
        ExcludeTexts ==
            {None, Some(<<"a", "*">>), Some(<<"[", "a">>), Some(<<"*", "*", "*">>)}
        DefaultCli ==
            [pattern |-> None, exclude |-> None, all_files |-> FALSE,
             dir_only |-> FALSE, fromfile |-> FALSE]
    IN  {[cli |-> [DefaultCli EXCEPT !.pattern = p, !.exclude = x, !.fromfile = ff],
          stdout |-> None] :
            p \in PatternTexts, x \in ExcludeTexts, ff \in BOOLEAN}
        \cup {[cli |-> [DefaultCli EXCEPT !.dir_only = d],
               stdout |-> Some([accepts |-> k, error |-> e])] :
                 d \in BOOLEAN, k \in 0..MaxAccepts, e \in IoErrors}

\* The trees of these runs: a directory `a` with a file and a symbolic
\* link a/l that points back to `a`, a file and a link l to the root in
\* the root;
\* the root, or `a`, may be unreadable (or absent, for the root).
MainFs ==
    LET paths == {<<<<"a">>, "dir">>, <<<<"a", "/", "b", ".", "x">>, "file">>,
                  <<<<"a", "/", "l">>, "link">>, <<<<"a", ".", "x">>, "file">>,
                  <<<<"l">>, "link">>}
        node(u, bad) == IF u[2] = "link"
                        THEN [path |-> u[1], kind |-> "link", to_dir |-> TRUE,
                              target |-> parent_of(u[1]), mod_time |-> Some(1),
                              stat_ok |-> TRUE, readable |-> TRUE]
                        ELSE Node(u[1], u[2], Some(1), TRUE, u[1] \notin bad)
    IN  {[nodes |-> {node(u, bad) : u \in S}, root_readable |-> rr] :
            S \in {T \in SUBSET paths : IsTree(T)},
            bad \in {{}, {<<"a">>}},
            rr \in BOOLEAN}

\* What the process has not yet done.
NotStarted ==
    [out |-> <<>>, diag |-> <<>>, status |-> "", traversed |-> FALSE, error |-> None]

MainInit ==
    /\ runs = 0
    /\ res = NotStarted
    /\ prev = NotStarted
    /\ \/ /\ options \in {i \in Invocations : i.cli.fromfile}
          /\ fs = EmptyFs
          /\ listing \in Listings
       \/ /\ options \in {i \in Invocations : ~i.cli.fromfile /\ i.stdout = None}
          /\ fs \in MainFs
          /\ listing = <<>>
       \/ /\ options \in {i \in Invocations : i.stdout # None}
          /\ fs \in {f \in MainFs : f.root_readable /\ \A n \in f.nodes : n.readable}
          /\ listing = <<>>

\* One run of the program from its main function.
Main ==
    /\ runs = 0
    /\ \E ord \in Orders, e \in ReadErrors :
          res' = main(options, list_directory_with(options.cli, fs, listing, ord), e)
    /\ runs' = 1
    /\ UNCHANGED <<fs, listing, options, prev>>

\* One call of run_cli.
RunCli ==
    /\ runs = 0
    /\ \E ord \in Orders, e \in ReadErrors :
          res' = run_cli(options, list_directory_with(options.cli, fs, listing, ord), e)
    /\ runs' = 1
    /\ UNCHANGED <<fs, listing, options, prev>>

MainNext == Main \/ RunCli

MainSpec == MainInit /\ [][MainNext]_vars


(***************************************************************************)
(* The human-readable size.  A u64 byte count is the sequence of its       *)
(* digits in base 1024, the most significant first and not zero (the       *)
(* empty sequence is 0), so that dividing by 1024.0 drops a digit.  The    *)
(* counts of the model are below 2^53, where `bytes as f64` and the        *)
(* division by a power of 1024 are exact.  In these runs `options` is      *)
(* [bytes] and `res` is [text].                                            *)
(***************************************************************************)
\* The number of byte counts next below 1024^5 whose f64 logarithm is the
\* double nearest to ln(1024^5): ln(2^50 - d) is d / 8 of the spacing of
\* the doubles (2^-47) below ln(2^50), so the nearest double is the same
\* for d <= 3, and its quotient by ln(1024) is 5.0.  Below the smaller
\* powers of 1024 the spacing is finer than the step and no count rounds
\* up.
F64_LOG_SLACK == 3

\* (bytes as f64).log(1024.0).floor() as usize, for bytes > 0.
log_floor(digits) ==
    IF /\ Len(digits) = 5
       /\ \A i \in 1..4 : digits[i] = 1023
       /\ digits[5] >= 1024 - F64_LOG_SLACK
    THEN 5
    ELSE Len(digits) - 1

\* The quotient and the remainder of a count by ten (long division).
RECURSIVE DivTen(_, _)
DivTen(digits, carry) ==
    IF digits = <<>> THEN <<<<>>, carry>>
    ELSE LET v == carry * 1024 + Head(digits)
             rest == DivTen(Tail(digits), v % 10)
         IN  <<<<v \div 10>> \o rest[1], rest[2]>>

RECURSIVE StripZeros(_)
StripZeros(digits) ==
    IF digits # <<>> /\ Head(digits) = 0 THEN StripZeros(Tail(digits)) ELSE digits

DecimalDigit(d) == <<"0", "1", "2", "3", "4", "5", "6", "7", "8", "9">>[d + 1]

\* Display of an unsigned integer: its decimal digits.
RECURSIVE Decimal(_)
Decimal(digits) ==
    IF StripZeros(digits) = <<>> THEN <<"0">>
    ELSE LET qr == DivTen(StripZeros(digits), 0)
         IN  (IF StripZeros(qr[1]) = <<>> THEN <<>> ELSE Decimal(qr[1]))
                 \o <<DecimalDigit(qr[2])>>

\* Ten times a fraction given by its base-1024 digits: <<integer part,
\* digits of the fraction left>>.
RECURSIVE TimesTen(_)
TimesTen(fraction) ==
    IF fraction = <<>> THEN <<0, <<>>>>
    ELSE LET rest == TimesTen(Tail(fraction))
             v == Head(fraction) * 10 + rest[1]
         IN  <<v \div 1024, <<v % 1024>> \o rest[2]>>

\* format!("{:.1}", size) for size = whole + fraction: the exact value
\* rounded to one decimal, a tie to the even digit.
format_one_decimal(whole, fraction) ==
    LET t == TimesTen(fraction)
        left == t[2]
        above == left # <<>> /\ (left[1] > 512
                     \/ (left[1] = 512 /\ \E i \in 2..Len(left) : left[i] # 0))
        tie == left # <<>> /\ left[1] = 512 /\ \A i \in 2..Len(left) : left[i] = 0
        tenths == whole * 10 + t[1] + (IF above \/ (tie /\ t[1] % 2 = 1) THEN 1 ELSE 0)
    IN  Decimal(<<tenths \div 10>>) \o <<".", DecimalDigit(tenths % 10)>>

UNITS == <<<<"B">>, <<"K", "B">>, <<"M", "B">>, <<"G", "B">>, <<"T", "B">>>>

bytes_to_human_readable(bytes) ==
    IF bytes = <<>> THEN <<"0", " ", "B">>
    ELSE LET l == log_floor(bytes)
             i == IF l < Len(UNITS) THEN l ELSE 0
         IN  IF i = 0 THEN Decimal(bytes) \o <<" ">> \o UNITS[1]
             ELSE format_one_decimal(bytes[1], Tail(bytes)) \o <<" ">> \o UNITS[i + 1]

\* The byte counts: 0, counts of one digit, and counts of two to six
\* digits (up to 7 * 1024^5, below 2^53) with a first digit, equal middle
\* digits and a last digit that put them at, next to and between the
\* powers of 1024 and on the ties of the rounding.
ByteCounts ==
    {<<>>} \cup {<<n>> : n \in {1, 3, 512, 1023}}
        \cup {<<top>> \o [i \in 1..(len - 2) |-> mid] \o <<last>> :
                 top \in {1, 2, 7, 1023}, mid \in {0, 256, 512, 768, 1023},
                 last \in {0, 1, 102, 256, 512, 768, 1020, 1021, 1022, 1023},
                 len \in 2..6}

NotConverted == [text |-> <<>>]

SizeInit ==
    /\ runs = 0
    /\ res = NotConverted
    /\ prev = NotConverted
    /\ options \in {[bytes |-> b] : b \in {c \in ByteCounts : Len(c) < 6 \/ c[1] <= 7}}
    /\ fs = EmptyFs
    /\ listing = <<>>

\* One call of bytes_to_human_readable.
BytesToHumanReadable ==
    /\ runs = 0
    /\ res' = [text |-> bytes_to_human_readable(options.bytes)]
    /\ runs' = 1
    /\ UNCHANGED <<fs, listing, options, prev>>

SizeNext == BytesToHumanReadable

SizeSpec == SizeInit /\ [][SizeNext]_vars


(***************************************************************************)
(* What the claims speak about.                                            *)
(***************************************************************************)
\* The tree a run walks: every entry with its path and whether the walk
\* takes it for a directory.
Tree ==
    IF options.from_file
    THEN {[path |-> e.path, is_dir |-> e.is_dir] : e \in parse_file_listing(listing)}
    ELSE {[path |-> n.path, is_dir |-> file_type_is_dir(n)] : n \in fs.nodes}

IsDirPath(p) == \E e \in Tree : e.path = p /\ e.is_dir

\* The depth of an entry: 0 for the root's children.
Depth(p) == Cardinality({i \in 1..Len(p) : p[i] = "/"})

EntryLines(out) == SelectSeq(out, LAMBDA l : l.kind = "entry")

Emitted(out) == {l.path : l \in Range(EntryLines(out))}

\* The paths of the entry lines written for the children of `parent`, in
\* the order written.
Siblings(out, parent) ==
    LET ls == SelectSeq(out, LAMBDA l : l.kind = "entry" /\ parent_of(l.path) = parent)
    IN  [i \in 1..Len(ls) |-> ls[i].path]

Done == runs > 0
Succeeded == runs > 0 /\ ~res.err

\* C1: after a run that completes without error, in both modes,
\* directoryCount + fileCount is the number of entry lines written: every
\* emitted path has one line, directoryCount is the number of lines of
\* directories and fileCount the number of the other lines, also for a
\* directory that is listed but not descended into.
C1_StatsMatchEntryLines ==
    Succeeded =>
        LET ls == EntryLines(res.out)
        IN  /\ res.stats[1] + res.stats[2] = Len(ls)
            /\ Cardinality(Emitted(res.out)) = Len(ls)
            /\ res.stats[1] = Cardinality({p \in Emitted(res.out) : IsDirPath(p)})
            /\ res.stats[2] = Cardinality({p \in Emitted(res.out) : ~IsDirPath(p)})

\* A successful walk of a real tree that lists and counts a directory
\* without descending into it: its child is in the tree and on no line.
C1_Witness ==
    /\ Succeeded
    /\ ~options.from_file
    /\ options.level = Some(1)
    /\ options.all_files
    /\ options.pattern_glob = None /\ options.exclude_pattern = None
    /\ ~options.dir_only
    /\ \E d \in Emitted(res.out) :
          /\ IsDirPath(d)
          /\ \E e \in Tree : parent_of(e.path) = d /\ e.path \notin Emitted(res.out)
    /\ res.stats[1] >= 1 /\ res.stats[2] >= 1

\* C2: with max-depth = N, N = 0 included, no entry of depth >= N is
\* emitted, in both modes.
C2_DepthBound ==
    (Done /\ IsSome(options.level)) =>
        \A p \in Emitted(res.out) : Depth(p) < Unwrap(options.level)


\* The proper ancestors of a path: the text before each of its '/'.
Ancestors(p) == {SubSeq(p, 1, k - 1) : k \in {i \in 1..Len(p) : p[i] = "/"}}

IsBelow(p, d) == d \in Ancestors(p)

\* The tree with every unreadable directory replaced by a readable, empty one.
Abandoned(f) ==
    LET bad == {n.path : n \in {m \in f.nodes : m.kind = "dir" /\ ~m.readable}}
    IN  [f EXCEPT !.nodes =
            {[n EXCEPT !.readable = TRUE] :
                n \in {m \in f.nodes : \A d \in bad : ~IsBelow(m.path, d)}}]

\* C3: when reading a directory D below the root fails, only D's subtree is
\* abandoned: the run writes what it writes for the tree in which D is empty
\* (D's line, every later sibling of D and of its ancestors, the summary)
\* and returns success.
C3_OnlySubtreeAbandoned ==
    (Done /\ ~options.from_file /\ fs.root_readable
          /\ \A n \in fs.nodes : n.stat_ok) =>
        /\ ~res.err
        /\ res = list_from_filesystem_with_writer(Abandoned(fs), options, "asc")

HiddenRule(p) == ~options.all_files /\ starts_with(file_name(p), ".")

ExcludeRule(p) ==
    IsSome(options.exclude_pattern)
        /\ GlobMatches(Unwrap(options.exclude_pattern), file_name(p))

MatchesInclude(p) ==
    IsSome(options.pattern_glob)
        /\ GlobMatches(Unwrap(options.pattern_glob), file_name(p))

\* The depth and fan-out limits let the walk reach the entry at path p.
WithinLimits(p) ==
    /\ IsSome(options.level) => Depth(p) < Unwrap(options.level)
    /\ (~options.from_file /\ IsSome(options.file_limit)) =>
          \A d \in Ancestors(p) :
              Cardinality({e \in Tree : parent_of(e.path) = d})
                  <= Unwrap(options.file_limit)

\* C4: with an include glob, in both modes, a directory is never skipped for
\* not matching the glob: every directory that passes the hidden and exclude
\* rules (as its ancestors do) is emitted, and so is every file below such
\* directories whose name matches the glob, within the depth and fan-out
\* limits.
C4_DirectoriesNotFilteredByInclude ==
    (Succeeded /\ IsSome(options.pattern_glob)) =>
        \A e \in Tree :
            ( /\ WithinLimits(e.path)
              /\ \A d \in Ancestors(e.path) :
                    IsDirPath(d) /\ ~HiddenRule(d) /\ ~ExcludeRule(d)
              /\ ~HiddenRule(e.path) /\ ~ExcludeRule(e.path)
              /\ e.is_dir \/ (MatchesInclude(e.path) /\ ~options.dir_only) )
            => e.path \in Emitted(res.out)

\* C5: in both modes no entry whose name matches the exclude glob has a
\* line, whether or not it matches the include glob too, and nothing below
\* an excluded directory has one; with C1, none of them is counted.
C5_ExcludeWins ==
    (Done /\ IsSome(options.exclude_pattern)) =>
        /\ \A p \in Emitted(res.out) :
              /\ ~ExcludeRule(p)
              /\ \A d \in Ancestors(p) : ~ExcludeRule(d)
        /\ ~res.err => res.stats[1] + res.stats[2] = Cardinality(Emitted(res.out))

\* A run with both globs over a tree holding a file that matches both and a
\* directory that matches the exclude glob and has a child, in which some
\* other file is emitted.
C5_Witness ==
    /\ Succeeded
    /\ ~options.from_file
    /\ IsSome(options.exclude_pattern) /\ IsSome(options.pattern_glob)
    /\ \E e \in Tree : ~e.is_dir /\ ExcludeRule(e.path) /\ MatchesInclude(e.path)
                       /\ Ancestors(e.path) = {}
    /\ \E e \in Tree : e.is_dir /\ ExcludeRule(e.path)
                       /\ \E c \in Tree : parent_of(c.path) = e.path
    /\ \E p \in Emitted(res.out) : ~IsDirPath(p)

\* C6: with an include glob on a real tree, a directory is emitted only if
\* some file at any depth inside it matches the glob, a file only if its
\* name matches; and, when no other option filters or limits the walk, a
\* directory that holds a matching file is emitted.
C6_IncludePrunesDirectories ==
    (Succeeded /\ ~options.from_file /\ IsSome(options.pattern_glob)) =>
        /\ \A p \in Emitted(res.out) :
              IF IsDirPath(p)
              THEN \E e \in Tree : ~e.is_dir /\ IsBelow(e.path, p) /\ MatchesInclude(e.path)
              ELSE MatchesInclude(p)
        /\ (options.all_files /\ options.exclude_pattern = None /\ ~options.dir_only
                /\ options.level = None /\ options.file_limit = None) =>
              \A d \in Tree :
                  (d.is_dir /\ \E e \in Tree : ~e.is_dir /\ IsBelow(e.path, d.path)
                                              /\ MatchesInclude(e.path))
                      => d.path \in Emitted(res.out)


\* The root (the empty path) and every directory of the tree.
DirParents == {<<>>} \cup {e.path : e \in {t \in Tree : t.is_dir}}

IsNotDirPath(p) == ~IsDirPath(p)

\* C7: with directories-first, among the emitted children of every
\* directory no directory comes after a non-directory, whatever sort-by-time
\* and reverse are, in both modes.
C7_DirectoriesFirst ==
    (Done /\ options.dirs_first) =>
        \A d \in DirParents :
            LET sib == Siblings(res.out, d)
            IN  \A i, j \in 1..Len(sib) :
                    (i < j /\ IsDirPath(sib[j])) => IsDirPath(sib[i])

\* A run with directories-first, sort-by-time and reverse over a directory
\* in which a file is older and a file is newer than a directory.
C7_Witness ==
    /\ Done
    /\ ~options.from_file
    /\ options.dirs_first /\ options.sort_by_time /\ options.reverse
    /\ \E f, g, d \in fs.nodes :
          /\ f.kind = "file" /\ g.kind = "file" /\ d.kind = "dir"
          /\ {f.path, g.path, d.path} \subseteq Range(Siblings(res.out, <<>>))
          /\ time_or_epoch(f) < time_or_epoch(d)
          /\ time_or_epoch(d) < time_or_epoch(g)

\* The run of the same program on the same input without --reverse.
WithoutReverse ==
    list_directory(fs, listing, [options EXCEPT !.reverse = FALSE], "asc")

\* C8, as claimed: with reverse, the emitted children of every directory of
\* a real tree are the exact reversal of those emitted without reverse, with
\* directories-first too.
C8_ReverseIsWholeReversal ==
    (Succeeded /\ ~options.from_file /\ options.reverse) =>
        \A d \in DirParents :
            Siblings(res.out, d) = Reverse(Siblings(WithoutReverse.out, d))

\* C8, amended: with reverse and without directories-first the emitted
\* children of every directory are the exact reversal of those emitted
\* without reverse; with directories-first the directories still come
\* first, and the directories and the files are each the reversal of the
\* directories and of the files emitted without reverse.
C8_ReversePerPartition ==
    (Succeeded /\ ~options.from_file /\ options.reverse) =>
        \A d \in DirParents :
            LET now == Siblings(res.out, d)
                base == Siblings(WithoutReverse.out, d)
            IN  IF options.dirs_first
                THEN /\ SelectSeq(now, IsDirPath)
                            = Reverse(SelectSeq(base, IsDirPath))
                     /\ SelectSeq(now, IsNotDirPath)
                            = Reverse(SelectSeq(base, IsNotDirPath))
                     /\ now = SelectSeq(now, IsDirPath) \o SelectSeq(now, IsNotDirPath)
                ELSE now = Reverse(base)

\* A run with reverse and directories-first that emitted two directories and
\* two files side by side.
C8_Witness ==
    /\ Succeeded
    /\ ~options.from_file
    /\ options.reverse /\ options.dirs_first
    /\ Len(SelectSeq(Siblings(res.out, <<>>), IsDirPath)) >= 2
    /\ Len(SelectSeq(Siblings(res.out, <<>>), IsNotDirPath)) >= 2

\* The modification time of the entry at path p of the real tree.
ModTimeAt(p) == (CHOOSE n \in fs.nodes : n.path = p).mod_time

\* The oldest modification time an entry of the model has.
OldestTime ==
    CHOOSE t \in {Unwrap(m) : m \in ModTimes \ {None}} :
        \A m \in ModTimes \ {None} : t <= Unwrap(m)

\* The time an entry is sorted by when one without a time counts as `missing`;
\* the entries of a listing have no time.
SortTime(p, missing) ==
    IF options.from_file THEN missing
    ELSE IF IsSome(ModTimeAt(p)) THEN Unwrap(ModTimeAt(p)) ELSE missing

SamePartition(p, q) == options.dirs_first => (IsDirPath(p) <=> IsDirPath(q))

\* Without reverse, the emitted children of every directory (of each
\* partition with directories-first) ascend by name, or with sort-by-time by
\* time and then by name, an entry without a time counting as `missing`.
SortedSiblings(missing) ==
    \A d \in DirParents :
        LET sib == Siblings(res.out, d)
        IN  \A i, j \in 1..Len(sib) :
                (i < j /\ SamePartition(sib[i], sib[j])) =>
                    IF options.sort_by_time
                    THEN \/ SortTime(sib[i], missing) < SortTime(sib[j], missing)
                         \/ /\ SortTime(sib[i], missing) = SortTime(sib[j], missing)
                            /\ StrCmp(file_name(sib[i]), file_name(sib[j])) < 0
                    ELSE StrCmp(file_name(sib[i]), file_name(sib[j])) < 0

\* C9, as claimed: the siblings are sorted with an entry whose time cannot
\* be obtained ordered as the oldest timestamp.
C9_MissingTimeIsOldest ==
    (Done /\ ~options.reverse) => SortedSiblings(OldestTime)

\* C9, amended: the siblings are sorted with an entry whose time cannot be
\* obtained ordered as if its time were the Unix epoch, after the siblings
\* whose time is before the epoch.
C9_MissingTimeIsEpoch ==
    (Done /\ ~options.reverse) => SortedSiblings(UNIX_EPOCH)

\* A run with sort-by-time and without reverse that emitted, side by side
\* in one partition, an entry without a time, one from before the epoch and
\* two of the same time.
C9_Witness ==
    /\ Done
    /\ ~options.from_file
    /\ options.sort_by_time /\ ~options.reverse /\ ~options.dirs_first
    /\ LET sib == Range(Siblings(res.out, <<>>))
       IN  /\ \E p \in sib : ModTimeAt(p) = None
           /\ \E p \in sib : IsSome(ModTimeAt(p)) /\ Unwrap(ModTimeAt(p)) < UNIX_EPOCH
           /\ \E p, q \in sib : p # q /\ ModTimeAt(p) = ModTimeAt(q)

\* C10: two runs on the same input write the same lines and count the same,
\* whatever order the directory reader or the parser's hash map hands out
\* its items in.
C10_Deterministic ==
    runs >= 2 => (res.out = prev.out /\ res.stats = prev.stats /\ res.err = prev.err)

\* Two runs over a real tree sorted by time in which two siblings have the
\* same time, so that only their names order them.
C10_Witness ==
    /\ runs >= 2
    /\ ~options.from_file
    /\ options.sort_by_time
    /\ \E p, q \in Range(Siblings(res.out, <<>>)) :
          p # q /\ time_or_epoch([mod_time |-> ModTimeAt(p)])
                     = time_or_epoch([mod_time |-> ModTimeAt(q)])

\* The raw entry count of the directory at path d: every entry the reader
\* returns, hidden and filtered-out ones included.
RawCount(d) == Cardinality({e \in Tree : parent_of(e.path) = d})

\* The entry at path p of the real tree passes the filter.
PassesFilter(p) ==
    \E n \in fs.nodes : n.path = p /\ ~should_skip_entry(n, options)

\* C11: with fan-out-limit = L on a real tree, a directory whose raw entry
\* count (hidden and filtered-out entries included) is greater than L has no
\* descendant emitted or counted, while it is itself emitted and counted as
\* a directory like every child that passes the filter of a directory that
\* is descended into; a directory whose raw count is <= L is descended into
\* as usual: its children that pass the filter are emitted when the depth
\* limit allows.
C11_FanOutLimit ==
    (Succeeded /\ ~options.from_file /\ IsSome(options.file_limit)) =>
        LET L == Unwrap(options.file_limit)
            level_allows(p) == IsSome(options.level) => Depth(p) < Unwrap(options.level)
        IN  /\ \A d \in Tree :
                  (d.is_dir /\ RawCount(d.path) > L) =>
                      \A p \in Emitted(res.out) : ~IsBelow(p, d.path)
            /\ \A c \in Tree :
                  ( /\ PassesFilter(c.path)
                    /\ level_allows(c.path)
                    /\ \/ parent_of(c.path) = <<>>
                       \/ /\ parent_of(c.path) \in Emitted(res.out)
                          /\ RawCount(parent_of(c.path)) <= L )
                  => c.path \in Emitted(res.out)
            /\ res.stats[1] = Cardinality({p \in Emitted(res.out) : IsDirPath(p)})
            /\ res.stats[2] = Cardinality({p \in Emitted(res.out) : ~IsDirPath(p)})

\* A run with fan-out-limit 1 over a tree in which an emitted directory
\* holds two entries of which one alone passes the filter: the raw count is
\* over the limit, the filtered count is not, and no child is emitted.
C11_Witness ==
    /\ Succeeded
    /\ ~options.from_file
    /\ options.file_limit = Some(1)
    /\ options.level = None
    /\ \E d \in Emitted(res.out) :
          /\ RawCount(d) = 2
          /\ Cardinality({e \in Tree : parent_of(e.path) = d /\ PassesFilter(e.path)}) = 1
          /\ \A e \in Tree : parent_of(e.path) = d => e.path \notin Emitted(res.out)

\* The index of the k-th '/' of the path p.
SlashAt(p, k) ==
    CHOOSE i \in 1..Len(p) :
        p[i] = "/" /\ Cardinality({j \in 1..i : p[j] = "/"}) = k

\* The proper ancestors of a path from the outermost to the parent.
AncestorSeq(p) == [k \in 1..Depth(p) |-> SubSeq(p, 1, SlashAt(p, k) - 1)]

\* The entry at path p is the last emitted sibling of its directory.
IsLastEmitted(out, p) ==
    LET sib == Siblings(out, parent_of(p))
    IN  sib # <<>> /\ sib[Len(sib)] = p

\* The text of the entry lines, in the order written.
EntryTexts(out) == [i \in 1..Len(EntryLines(out)) |-> EntryLines(out)[i].text]

\* What the Scenario A tree is to be shown as.
ScenarioAEntryTexts ==
    << <<MidBranch>> \o file_name(dir1),
       <<VerticalLine, MidBranch>> \o file_name(dir1_1),
       <<VerticalLine, LastBranch>> \o file_name(file2_txt),
       <<MidBranch>> \o file_name(dir2),
       <<VerticalLine, LastBranch>> \o file_name(file3_txt),
       <<LastBranch>> \o file_name(file1_txt) >>

\* C12: on a real tree (no indent suppression, no ASCII art) each entry
\* line is, for every ancestor from the outermost on, 4 spaces if that
\* ancestor was the last emitted sibling of its directory and else the
\* vertical-bar column, then the last-sibling connector if the entry is the
\* last emitted sibling of its directory and else the non-last connector,
\* then the bare name; and with default options the Scenario A tree is
\* written as root, dir1, dir1_1, file2.txt, dir2, file3.txt, file1.txt with
\* the connectors shown, a blank line and `3 directories, 3 files`.
C12_EntryLineLayout ==
    (Succeeded /\ ~options.from_file) =>
        /\ \A i \in 1..Len(res.out) :
              res.out[i].kind = "entry" =>
                  LET p == res.out[i].path
                      anc == AncestorSeq(p)
                  IN  res.out[i].text =
                          [k \in 1..Len(anc) |->
                              IF IsLastEmitted(res.out, anc[k]) THEN "    "
                              ELSE VerticalLine]
                          \o <<IF IsLastEmitted(res.out, p) THEN LastBranch
                               ELSE MidBranch>>
                          \o file_name(p)
        /\ (options = DefaultOptions /\ fs = FsOf(ScenarioA)) =>
              /\ Len(res.out) = 9
              /\ res.out[1] = RootLine
              /\ EntryTexts(res.out) = ScenarioAEntryTexts
              /\ res.out[8] = BlankLine
              /\ res.out[9] = [kind |-> "summary", dirs |-> 3,
                               dir_str |-> "directories", files |-> 3,
                               file_str |-> "files"]

\* The run with default options over the Scenario A tree.
C12_Witness ==
    /\ Succeeded
    /\ options = DefaultOptions
    /\ fs = FsOf(ScenarioA)
    /\ Len(EntryLines(res.out)) = 6

\* The input is the Scenario A tree, as a directory tree or as a listing.
IsScenarioA ==
    IF options.from_file THEN listing = ListingOf(ScenarioA)
    ELSE fs = FsOf(ScenarioA)

\* Scenario B: the Scenario A tree with max-depth = 1 and nothing else set.
IsScenarioB ==
    /\ IsScenarioA
    /\ options = [DefaultOptions EXCEPT !.level = Some(1),
                                        !.from_file = options.from_file]

\* The run wrote the root line, lines for exactly dir1, dir2 and file1.txt,
\* a blank line and the summary line `last`.
ScenarioBOutput(last) ==
    /\ Siblings(res.out, <<>>) = <<dir1, dir2, file1_txt>>
    /\ Emitted(res.out) = {dir1, dir2, file1_txt}
    /\ Len(res.out) = 6
    /\ res.out[1] = RootLine
    /\ res.out[5] = BlankLine
    /\ res.out[6] = last

\* C13, as claimed: for the Scenario A tree with max-depth = 1 exactly dir1,
\* dir2 and file1.txt are emitted and the summary line reads
\* `2 directories, 1 files`.
C13_SummaryOneFiles ==
    (Done /\ IsScenarioB) =>
        ScenarioBOutput([kind |-> "summary", dirs |-> 2, dir_str |-> "directories",
                         files |-> 1, file_str |-> "files"])

\* C13, amended: for the Scenario A tree with max-depth = 1 exactly dir1,
\* dir2 and file1.txt are emitted (the directories at the depth limit are
\* listed and counted, not descended into) and the summary line reads
\* `2 directories, 1 file`, the word being singular for a count of one.
C13_SummaryOneFile ==
    (Done /\ IsScenarioB) =>
        /\ ~res.err
        /\ res.stats = <<2, 1>>
        /\ ScenarioBOutput([kind |-> "summary", dirs |-> 2,
                            dir_str |-> "directories",
                            files |-> 1, file_str |-> "file"])

\* The run over the Scenario A directory tree with max-depth = 1.
C13_Witness ==
    /\ Succeeded
    /\ ~options.from_file
    /\ IsScenarioB
    /\ dir1 \in Emitted(res.out)
    /\ dir1_1 \notin Emitted(res.out)

\* The name of the entry at path p starts with '.'.
IsHiddenName(p) == starts_with(file_name(p), ".")

\* The entry at path p is hidden or lies inside a hidden directory.
InHidden(p) == IsHiddenName(p) \/ \E d \in Ancestors(p) : IsHiddenName(d)

\* C14: in both modes, when show-hidden is false no entry whose name starts
\* with '.' and nothing inside a hidden directory has a line, and none is
\* counted (the counters add up to the lines written); when show-hidden is
\* true and no other filter is set, those entries are emitted, the contents
\* of a hidden directory included, within the depth and fan-out limits.
C14_HiddenEntries ==
    /\ (Done /\ ~options.all_files) =>
          /\ \A p \in Emitted(res.out) : ~InHidden(p)
          /\ ~res.err =>
                res.stats[1] + res.stats[2]
                    = Cardinality({e \in Tree : e.path \in Emitted(res.out)
                                                /\ ~InHidden(e.path)})
    /\ (Succeeded /\ options.all_files /\ options.pattern_glob = None
            /\ options.exclude_pattern = None /\ ~options.dir_only) =>
          \A e \in Tree :
              (InHidden(e.path) /\ WithinLimits(e.path)) => e.path \in Emitted(res.out)

\* A run over a listing without show-hidden in which a hidden directory
\* with a file inside stands beside an entry that is emitted.
C14_Witness ==
    /\ Succeeded
    /\ options.from_file
    /\ ~options.all_files
    /\ \E e \in Tree : e.is_dir /\ IsHiddenName(e.path)
                       /\ \E c \in Tree : parent_of(c.path) = e.path
    /\ Emitted(res.out) # {}

\* A run over a directory tree with show-hidden in which a hidden directory
\* and the file inside it are emitted.
C14_ShownWitness ==
    /\ Succeeded
    /\ ~options.from_file
    /\ options.all_files
    /\ \E p, q \in Emitted(res.out) :
          IsHiddenName(p) /\ IsDirPath(p) /\ parent_of(q) = p

\* The run of the same program on the same input without suppress-summary.
WithReport ==
    list_directory(fs, listing, [options EXCEPT !.no_report = FALSE], "asc")

\* C15: with suppress-summary, in both modes, neither the blank line nor the
\* summary line is written, and the root line and the entry lines are
\* exactly the lines written for the same input and options without
\* suppress-summary, which end with the blank line and the summary line.
C15_SuppressSummary ==
    (Succeeded /\ options.no_report) =>
        LET full == WithReport.out
        IN  /\ \A i \in 1..Len(res.out) : res.out[i].kind \in {"root", "entry"}
            /\ Len(full) = Len(res.out) + 2
            /\ res.out = SubSeq(full, 1, Len(full) - 2)
            /\ full[Len(full) - 1] = BlankLine
            /\ full[Len(full)] = SummaryLine(res.stats)

\* A run over a listing with suppress-summary that emitted a directory and
\* a file inside it.
C15_Witness ==
    /\ Succeeded
    /\ options.from_file
    /\ options.no_report
    /\ \E p, q \in Emitted(res.out) : parent_of(q) = p
    /\ res.stats[1] >= 1 /\ res.stats[2] >= 1

\* A run over a directory tree with suppress-summary that emitted entries.
C15_RealWitness ==
    /\ Succeeded
    /\ ~options.from_file
    /\ options.no_report
    /\ res.stats[1] >= 1 /\ res.stats[2] >= 1

Parsed == runs = 1 /\ res.format # ""

\* The paths of the entries the parser returned.
ParsedPaths == {e.path : e \in res.entries}

\* The explicit paths of a listing of simple paths: every line without its
\* trailing slashes, the empty ones left out.
ExplicitPaths == {trim_end_slashes(listing[i]) : i \in 1..Len(listing)} \ {<<>>}

\* The proper '/'-prefixes of a path: the non-empty texts before a '/'.
ProperPrefixes(p) == Ancestors(p) \ {<<>>}

LineEntry(line) ==
    LET entry == IF res.format = "Simple" THEN parse_tar_simple_line(line)
                 ELSE parse_line(res.format, line)
    IN  IF IsSome(entry) /\ Unwrap(entry).path = <<>> THEN None ELSE entry

\* The lines of the listing that list the path p explicitly.
LinesOf(p) ==
    {i \in 1..Len(listing) :
        IsSome(LineEntry(listing[i])) /\ Unwrap(LineEntry(listing[i])).path = p}

LastLineOf(p) == CHOOSE i \in LinesOf(p) : \A j \in LinesOf(p) : j <= i

\* C17: after any sequence of listing lines each path has exactly one
\* entry; the entry of a path listed explicitly has the attributes
\* (is-directory, size) of the last line that lists it, whether ancestor
\* synthesis for that path was triggered by a line before or after it; and
\* every other entry is a synthesized directory without a size.
C17_LastExplicitWins ==
    Parsed =>
        /\ Cardinality(res.entries) = Cardinality(ParsedPaths)
        /\ \A e \in res.entries :
              IF LinesOf(e.path) # {}
              THEN e = Unwrap(LineEntry(listing[LastLineOf(e.path)]))
              ELSE e.is_dir /\ e.size = None
        /\ \A i \in 1..Len(listing) :
              IsSome(LineEntry(listing[i])) =>
                  Unwrap(LineEntry(listing[i])).path \in ParsedPaths

\* A parse of tar rows in which a file is listed twice with different sizes
\* and its parent is listed as a file after the row that synthesized it.
C17_Witness ==
    /\ Parsed
    /\ res.format = "Tar"
    /\ \E p \in ParsedPaths :
          /\ Cardinality(LinesOf(p)) = 2
          /\ \E i, j \in LinesOf(p) : LineEntry(listing[i]) # LineEntry(listing[j])
    /\ \E e \in res.entries :
          /\ ~e.is_dir /\ IsSome(e.size)
          /\ \E c \in ParsedPaths : e.path \in ProperPrefixes(c)
                                      /\ LastLineOf(c) < LastLineOf(e.path)

\* A parse of simple paths in which a path is listed as a file before a
\* line below it asks for it as a parent directory.
C17_SimpleWitness ==
    /\ Parsed
    /\ res.format = "Simple"
    /\ \E e \in res.entries :
          /\ ~e.is_dir
          /\ \E c \in ParsedPaths : e.path \in ProperPrefixes(c)
                                      /\ LinesOf(c) # {} /\ LinesOf(e.path) # {}
                                      /\ LastLineOf(e.path) < LastLineOf(c)

\* A single-letter drive prefix `X:` at the start of a path.
HasDrivePrefix(p) ==
    Len(p) >= 2 /\ p[2] = ":" /\ p[1] \in {"a", "b", "C"}

\* C18: every path the listing parser returns is normalized: it holds no
\* backslash, does not start with `./` and has no leading drive prefix
\* `X:`; thus the line C:\a\b gives the entry C/a/b with the synthesized
\* ancestors C and C/a.
C18_PathsNormalized ==
    Parsed =>
        /\ \A e \in res.entries :
              /\ ~contains(e.path, <<"\\">>)
              /\ ~starts_with_str(e.path, <<".", "/">>)
              /\ ~HasDrivePrefix(e.path)
        /\ listing = <<<<"C", ":", "\\", "a", "\\", "b">>>> =>
              ParsedPaths = {<<"C", "/", "a", "/", "b">>, <<"C">>, <<"C", "/", "a">>}

\* A block of lines has a signature line of a format among its first n.
HasSignature(lines, pattern(_), n) ==
    \E i \in 1..Len(lines) : i <= n /\ pattern(lines[i])

\* The first format of the chain RAR, 7-Zip, ZIP, TAR with a signature line
\* in its window of the lines, Simple when there is none.
FirstWithSignature(lines) ==
    IF HasSignature(lines, rar_pattern, 10) THEN "Rar"
    ELSE IF HasSignature(lines, sevenz_pattern, 10) THEN "SevenZip"
    ELSE IF HasSignature(lines, zip_pattern, 10) THEN "Zip"
    ELSE IF HasSignature(lines, tar_pattern, 5) THEN "Tar"
    ELSE "Simple"

\* C19: the format selected is the first of RAR, 7-Zip, ZIP, TAR that has a
\* signature line within its window of leading lines (the first 10 lines,
\* the first 5 for TAR), wherever a later format's signature stands, and
\* Simple exactly when there is none; the lines after the tenth do not
\* affect the choice.
C19_DetectionChain ==
    Parsed =>
        /\ res.format = FirstWithSignature(listing)
        /\ res.format = selected_format(take(listing, 10))
        /\ res.format = "Simple" <=>
              /\ ~HasSignature(listing, rar_pattern, 10)
              /\ ~HasSignature(listing, sevenz_pattern, 10)
              /\ ~HasSignature(listing, zip_pattern, 10)
              /\ ~HasSignature(listing, tar_pattern, 5)

\* A parse that chose ZIP for a listing in which a TAR signature line comes
\* before the ZIP signature line, both within their windows.
C19_Witness ==
    /\ Parsed
    /\ res.format = "Zip"
    /\ \E i, j \in 1..Len(listing) :
          /\ i < j /\ j <= 5
          /\ tar_pattern(listing[i]) /\ ~zip_pattern(listing[i])
          /\ zip_pattern(listing[j])

\* A parse that chose Simple for a listing whose only signature lines stand
\* after the window: a TAR row after the fifth line.
C19_BeyondWindowWitness ==
    /\ Parsed
    /\ res.format = "Simple"
    /\ \E i \in 6..Len(listing) : tar_pattern(listing[i])

\* The entry a row of the form `size date time path` stands for under the
\* ZIP grammar.
UnzipRowEntry(line) == parse_zip_line(line)

\* The unzip header stands among the leading lines and no line there has a
\* 7-Zip signature.
HasUnzipHeader ==
    /\ HasSignature(listing, LAMBDA l : starts_with_str(l, <<"A", "r", "c", "h", "i", "v", "e", ":">>), 10)
    /\ ~HasSignature(listing, sevenz_pattern, 10)

\* C20: a listing with a line beginning with Archive: among its leading
\* lines and no 7-Zip signature is detected as ZIP, and each of its
\* `size date time path` rows yields an entry of the parsed tree.
C20_UnzipHeaderIsZip ==
    (Parsed /\ HasUnzipHeader) =>
        /\ res.format = "Zip"
        /\ \A i \in 1..Len(listing) :
              (listing[i] = ZipRow) =>
                  /\ IsSome(UnzipRowEntry(listing[i]))
                  /\ Unwrap(UnzipRowEntry(listing[i])) \in res.entries

\* The lines of the listing that yield an entry under the selected format.
MatchingLines == SelectSeq(listing, LAMBDA l : IsSome(LineEntry(l)))

\* The tree the parser of a format builds from a sequence of lines.
ParseAs(format, lines) ==
    IF format = "Simple" THEN parse_simple_paths(lines)
    ELSE parse_listing_from({}, lines, format)

\* C21: the listing parser returns a tree for every sequence of lines; a
\* line that does not match the grammar of the selected format contributes
\* no entry and leaves the entries of the other lines as they are, so the
\* tree is the one built from the matching lines alone and each of its
\* paths is the path of a matching line or a prefix of one; an empty
\* listing, and a listing without a matching line, yield the empty tree.
C21_ParserTotal ==
    (runs = 1) =>
        /\ res.format \in {"Simple", "Tar", "Zip", "SevenZip", "Rar"}
        /\ res.entries = ParseAs(res.format, MatchingLines)
        /\ \A e \in res.entries :
              \E i \in 1..Len(listing) :
                  /\ IsSome(LineEntry(listing[i]))
                  /\ \/ e.path = Unwrap(LineEntry(listing[i])).path
                     \/ e.path \in ProperPrefixes(Unwrap(LineEntry(listing[i])).path)
        /\ (MatchingLines = <<>>) => (res.entries = {})
        /\ (listing = <<>>) => (res.entries = {})

\* A parse under the TAR grammar of a listing in which a row with too few
\* fields stands between two rows that yield entries.
C21_Witness ==
    /\ Parsed
    /\ res.format = "Tar"
    /\ Len(listing) = 3
    /\ listing[2] = TarShortRow
    /\ IsSome(LineEntry(listing[1]))
    /\ IsSome(LineEntry(listing[3]))
    /\ Unwrap(LineEntry(listing[1])).path # Unwrap(LineEntry(listing[3])).path
    /\ Cardinality(res.entries) >= 2

\* A parse of the empty listing.
C21_EmptyWitness == Parsed /\ listing = <<>> /\ res.entries = {}

\* The texts that are no glob pattern: a class that is not closed, three
\* stars in a row, two stars that are not a whole path component.
InvalidGlobTexts ==
    {<<"[">>, <<"[", "a">>, <<"*", "*", "*">>, <<"a", "*", "*">>}

HasInvalidGlob(cli) ==
    \/ IsSome(cli.pattern) /\ Unwrap(cli.pattern) \in InvalidGlobTexts
    \/ IsSome(cli.exclude) /\ Unwrap(cli.exclude) \in InvalidGlobTexts

\* C22: a run whose include or exclude text is not a valid glob pattern
\* ends with an error (exit status 1 from main, Err from run_cli) without
\* entering the traversal or the listing read and without any line, the
\* root line included, on the sink; a run whose texts are valid patterns
\* enters the listing code and writes the root line.
C22_InvalidGlobRejected ==
    (runs = 1) =>
        IF HasInvalidGlob(options.cli)
        THEN /\ res.status \in {"exit 1", "Err"}
             /\ ~res.traversed
             /\ res.out = <<>>
        ELSE /\ res.traversed
             /\ (options.stdout = None) => (Len(res.out) >= 1 /\ res.out[1] = RootLine)

\* A run from main with a valid include pattern and an invalid exclude
\* pattern on a readable tree with entries: it ended with status 1 and its
\* message, nothing written.
C22_Witness ==
    /\ runs = 1
    /\ options.cli.pattern = Some(<<"*", ".", "x">>)
    /\ options.cli.exclude = Some(<<"[", "a">>)
    /\ fs.root_readable /\ fs.nodes # {}
    /\ res.status = "exit 1"
    /\ res.diag = <<"Error: Invalid exclude pattern">>
    /\ res.out = <<>>

\* The error is a broken pipe: by its own kind, or by an io::Error of that
\* kind among the errors of its source chain.
IsBrokenPipe(e) ==
    \/ e.kind = "BrokenPipe"
    \/ \E i \in 1..Len(e.chain) : e.chain[i] = [io |-> TRUE, kind |-> "BrokenPipe"]

\* The run went through main and its listing returned the error e.
MainFailedWith(e) ==
    runs = 1 /\ res.status \in {"exit 0", "exit 1"} /\ res.error = Some(e)

\* C23: when the listing fails with an I/O error, a broken pipe (the kind
\* of the error itself or of an io::Error anywhere in its source chain)
\* ends the process with status 0 and nothing on the diagnostic stream;
\* every other error is reported there and ends the process with status 1.
C23_BrokenPipeSilent ==
    \A e \in IoErrors \cup ReadErrors :
        MainFailedWith(e) =>
            IF IsBrokenPipe(e)
            THEN res.status = "exit 0" /\ res.diag = <<>>
            ELSE /\ res.status = "exit 1"
                 /\ res.diag # <<>>
                 /\ res.diag[Len(res.diag)] = "Error"

\* A run whose second write failed with an error of another kind that has
\* a broken pipe as the second error of its source chain: one line was
\* written and the process ended silently with status 0.
C23_Witness ==
    \E e \in IoErrors :
        /\ MainFailedWith(e)
        /\ e.kind = "Other"
        /\ Len(e.chain) = 2
        /\ e.chain[1] = [io |-> FALSE, kind |-> ""]
        /\ e.chain[2] = [io |-> TRUE, kind |-> "BrokenPipe"]
        /\ Len(res.out) = 1
        /\ res.status = "exit 0"

\* A run whose write failed with WriteZero and no broken pipe in the chain.
C23_OtherKindWitness ==
    \E e \in IoErrors :
        /\ MainFailedWith(e)
        /\ e.kind = "WriteZero"
        /\ ~IsBrokenPipe(e)
        /\ res.status = "exit 1"

\* C25: when the root directory cannot be read (it does not exist or is
\* unreadable), the read error is reported on the diagnostic stream only:
\* list_directory returns Ok and the process exits with status 0.
C25_RootReadErrorIsOk ==
    (runs = 1 /\ ~options.cli.fromfile /\ ~HasInvalidGlob(options.cli)
       /\ options.stdout = None /\ ~fs.root_readable) =>
        /\ res.status \in {"exit 0", "Ok"}
        /\ res.error = None
        /\ res.diag = <<"Error reading directory">>

\* The run walked the directory tree to its end and ended successfully.
WalkedTree ==
    /\ runs = 1
    /\ ~options.cli.fromfile
    /\ options.stdout = None
    /\ res.status \in {"exit 0", "Ok"}

LinkPaths == {n.path : n \in {m \in fs.nodes : m.kind = "link"}}

\* C29: the walk of a directory tree ends, also when the tree holds
\* symbolic links that point to a directory above them: on a readable tree
\* the run ends successfully; every line is the line of a path of the tree
\* itself, none of a path reached through a link, and no path has two
\* lines, so no directory is read twice; and a link whose parent was read
\* has its line and is counted with the files, not with the directories.
C29_SymlinksNotFollowed ==
    /\ (runs = 1 /\ ~options.cli.fromfile /\ options.stdout = None
          /\ ~HasInvalidGlob(options.cli)
          /\ fs.root_readable /\ \A n \in fs.nodes : n.readable)
        => res.status \in {"exit 0", "Ok"}
    /\ (runs = 1 /\ ~options.cli.fromfile) =>
          /\ Emitted(res.out) \subseteq {n.path : n \in fs.nodes}
          /\ Cardinality(Emitted(res.out)) = Len(EntryLines(res.out))
          /\ \A p \in Emitted(res.out) : Ancestors(p) \cap LinkPaths = {}
    /\ WalkedTree =>
          LET summary == res.out[Len(res.out)]
              emitted == {n \in fs.nodes : n.path \in Emitted(res.out)}
          IN  /\ \A p \in LinkPaths :
                    (parent_of(p) = <<>> \/ parent_of(p) \in Emitted(res.out))
                        => p \in Emitted(res.out)
              /\ summary.kind = "summary"
              /\ summary.dirs = Cardinality({n \in emitted : n.kind = "dir"})
              /\ summary.files = Cardinality({n \in emitted : n.kind # "dir"})

\* A finished walk of the tree that holds the link l to the root and, in
\* the directory a, the link a/l to a: both links have a line, and the
\* summary counts one directory and the two links and the two files.
C29_Witness ==
    /\ WalkedTree
    /\ options.cli.dir_only = FALSE
    /\ options.cli.pattern = None /\ options.cli.exclude = None
    /\ Cardinality(fs.nodes) = 5
    /\ {<<"l">>, <<"a", "/", "l">>} \subseteq Emitted(res.out)
    /\ res.out[Len(res.out)].dirs = 1
    /\ res.out[Len(res.out)].files = 4

\* The value of a byte count of the model that fits TLC's integers.
RECURSIVE ValueOf(_)
ValueOf(digits) ==
    IF digits = <<>> THEN 0
    ELSE 1024 * ValueOf(SubSeq(digits, 1, Len(digits) - 1)) + digits[Len(digits)]

Converted == runs = 1 /\ "bytes" \in DOMAIN options

\* The unit the claim gives a count of two to five base-1024 digits: the
\* largest among KB, MB, GB, TB for which the divided value is at least 1.
LargestUnit(bytes) ==
    <<<<"K", "B">>, <<"M", "B">>, <<"G", "B">>, <<"T", "B">>>>[Len(bytes) - 1]

\* The text is a number with one decimal place, a space and the unit.
OneDecimalWith(text, unit) ==
    /\ ends_with_str(text, <<" ">> \o unit)
    /\ Len(text) >= Len(unit) + 4
    /\ text[Len(text) - Len(unit) - 2] = "."
    /\ is_ascii_digit(text[Len(text) - Len(unit) - 1])
    /\ \A i \in 1..(Len(text) - Len(unit) - 3) : is_ascii_digit(text[i])

\* C24: a byte count below 1024 is rendered as the integer and ` B`; a
\* count from 1024 up to, not including, 1024^5 is rendered with one
\* decimal place and the largest unit among KB, MB, GB, TB for which the
\* divided value is at least 1; a count of 1024^5 or more is rendered with
\* the unit B; 3, 1024, 1048576 and 0 render as `3 B`, `1.0 KB`, `1.0 MB`,
\* `0 B`.
C24_HumanReadableSize ==
    Converted =>
        LET bytes == options.bytes
        IN  /\ Len(bytes) <= 1 => res.text = Decimal(bytes) \o <<" ", "B">>
            /\ Len(bytes) \in 2..5 => OneDecimalWith(res.text, LargestUnit(bytes))
            /\ Len(bytes) >= 6 =>
                  /\ ends_with_str(res.text, <<" ", "B">>)
                  /\ \A i \in 1..(Len(res.text) - 2) : is_ascii_digit(res.text[i])
            /\ bytes = <<3>> => res.text = <<"3", " ", "B">>
            /\ bytes = <<1, 0>> => res.text = <<"1", ".", "0", " ", "K", "B">>
            /\ bytes = <<1, 0, 0>> => res.text = <<"1", ".", "0", " ", "M", "B">>
            /\ bytes = <<>> => res.text = <<"0", " ", "B">>

\* C26: in virtual mode with reverse set, the order in which the children
\* of every directory of a listing are emitted is the reversal of the order
\* in which they are emitted for the same listing without reverse.
C26_VirtualReverseIsReversal ==
    (Succeeded /\ options.from_file /\ options.reverse) =>
        \A d \in {<<>>} \cup Emitted(res.out) :
            Siblings(res.out, d) = Reverse(Siblings(WithoutReverse.out, d))

\* C27: in virtual mode, among the emitted children of every directory
\* exactly one carries the last-sibling connector and it is the last one
\* emitted, also when filtered siblings sort after it; and the column an
\* ancestor contributes to a descendant's line is blank exactly when that
\* ancestor was the last emitted sibling of its directory.
C27_VirtualLastSibling ==
    (Succeeded /\ options.from_file) =>
        \A i \in 1..Len(res.out) :
            res.out[i].kind = "entry" =>
                LET p == res.out[i].path
                    anc == AncestorSeq(p)
                    text == res.out[i].text
                IN  /\ text[Len(anc) + 1] = LastBranch <=> IsLastEmitted(res.out, p)
                    /\ \A k \in 1..Len(anc) :
                          text[k] = "    " <=> IsLastEmitted(res.out, anc[k])

\* C28: the entry lines are written in pre-order, in both modes: the line
\* of an entry comes after the line of its parent directory, the lines of
\* the emitted descendants of a directory form one block directly after its
\* line and before the line of its next sibling, and the indent stack an
\* entry is written with is as long as its depth (0 for the root's
\* children).
C28_PreOrder ==
    Done =>
        LET lines == EntryLines(res.out)
        IN  \A i \in 1..Len(lines) :
                /\ Len(lines[i].indent_state) = Depth(lines[i].path)
                /\ Depth(lines[i].path) > 0 =>
                      \E j \in 1..(i - 1) : lines[j].path = parent_of(lines[i].path)
                /\ \A k \in (i + 1)..Len(lines) :
                      IsBelow(lines[k].path, lines[i].path) =>
                          \A j \in (i + 1)..k : IsBelow(lines[j].path, lines[i].path)

\* A run of the real walk that wrote a
\* directory, an entry two levels below it and then the directory's next
\* sibling.
C28_Witness ==
    /\ Done
    /\ ~options.from_file
    /\ \E i, j, k \in 1..Len(EntryLines(res.out)) :
          LET lines == EntryLines(res.out)
          IN  /\ i < j /\ j < k
              /\ Depth(lines[i].path) = 0
              /\ Depth(lines[j].path) = 2
              /\ IsBelow(lines[j].path, lines[i].path)
              /\ parent_of(lines[k].path) = parent_of(lines[i].path)

C28_VirtualWitness ==
    /\ Done
    /\ options.from_file
    /\ \E i, j, k \in 1..Len(EntryLines(res.out)) :
          LET lines == EntryLines(res.out)
          IN  /\ i < j /\ j < k
              /\ Depth(lines[i].path) = 0
              /\ Depth(lines[j].path) = 2
              /\ IsBelow(lines[j].path, lines[i].path)
              /\ parent_of(lines[k].path) = parent_of(lines[i].path)

\* Show-hidden is set and no glob, directories-only or depth limit.
NothingFiltered ==
    /\ options.all_files
    /\ options.pattern_glob = None /\ options.exclude_pattern = None
    /\ ~options.dir_only
    /\ options.level = None

\* C30: in virtual mode with show-hidden set and no glob, directories-only
\* or depth limit, every entry of the parsed Virtual Tree is emitted exactly
\* once, whatever the listing lines are, so directoryCount + fileCount is
\* the number of entries of the tree.
C30_VirtualEveryEntryOnce ==
    (Succeeded /\ options.from_file /\ NothingFiltered) =>
        /\ \A e \in Tree :
              Cardinality({i \in 1..Len(res.out) :
                              res.out[i].kind = "entry" /\ res.out[i].path = e.path}) = 1
        /\ res.stats[1] + res.stats[2] = Cardinality(Tree)


====
